---- MODULE Spec2Model ----
(***************************************************************************)
(* Model of the 4-bit block-quantized GEMM kernels of                      *)
(* onnxruntime/core/mlas/lib/sqnbitgemm_kernel_neon.cpp.                   *)
(*                                                                         *)
(* Buffers are functions from 0-based offsets to values.  A byte is an     *)
(* integer in 0..255.  A float32 is modelled on the integers: every float  *)
(* operation rounds its exact result to a 24-bit significand (Fl).         *)
(***************************************************************************)
EXTENDS Integers, Sequences, FiniteSets, TLC

VARIABLES
    pc,                     \* position of the caller: "start", "packing", "packed", "called"
    ComputeType,            \* "CompFp32" or "CompInt8"
    BlkLen,                 \* elements per quantization block
    CountM,                 \* rows of A in the GEMM call
    CountN,                 \* columns of B
    CountK,                 \* rows of B (length of a row of A)
    QuantBDataBegin,        \* source 4-bit codes of B, two per byte, followed by guard bytes
    PackedQuantBDataBegin,  \* packed 4-bit codes of B, followed by guard bytes
    pending,                \* pack work units (tid) not yet run
    touched,                \* tid -> destination offsets written by that unit
    fetched,                \* tid -> source offsets read by that unit
    QuantBScale,            \* per (column, block) scale
    QuantBZeroPoint,        \* packed zero-points, or NULL
    Bias,                   \* per-column bias, or NULL
    A,                      \* float row of A (CompFp32)
    QuantA,                 \* block-quantized rows of A (CompInt8)
    C,                      \* output buffer
    ldc,                    \* row stride of C
    zpUsed,                 \* <<m, n, b>> -> zero-point the routine producing C[m,n] used for block b
    biasReads,              \* offsets of Bias read by the last call
    calls,                  \* the routines the last call ran, in order, with their arguments
    ret,                    \* value the last call returned (NULL for a void kernel)
    prev,                   \* the calls before the last one: their Bias and the C they left
    loop,                   \* the loop counters of a call in progress, and the loop it is at
    FpData,                 \* destination of the dequantization of B, and the memory after it
    value_indexes           \* the map of a VulkanKernel::ValueIndexes, name -> index

vars == <<pc, ComputeType, BlkLen, CountM, CountN, CountK, QuantBDataBegin,
          PackedQuantBDataBegin, pending, touched, fetched, QuantBScale,
          QuantBZeroPoint, Bias, A, QuantA, C, ldc, zpUsed, biasReads, calls, ret,
          prev, loop, FpData, value_indexes>>

\* a null buffer pointer, and a null offset into a buffer
NULL == <<>>
NullPtr == -1

-----------------------------------------------------------------------------
(* Bounds of the model. *)

MaxPackN == 2          \* columns in the packing specification
MaxBlockCountK == 2    \* blocks per column
MaxPattern == 1        \* code patterns 0..MaxPattern
MaxPackUnits == 4      \* units (blocks of B) of a call of the packing specification

BlkLens == {16, 32, 48, 64, 128}
ComputeTypes == {"CompFp32", "CompInt8"}
GuardBytes == {0, 255}

-----------------------------------------------------------------------------
(* Bytes and nibbles. *)

LowNibble(b) == b % 16
HighNibble(b) == b \div 16
MakeByte(lo, hi) == lo + 16 * hi

Min(a, b) == IF a < b THEN a ELSE b

\* e, evaluated once v has its value: the iterations of a loop, one after the other
AndThen(v, e) == IF v = v THEN e ELSE e

MlasDivRoundup(up, down) == (up + down - 1) \div down

BlkBitWidth == 4

MlasQNBitBlkDataSizeInBytes(BLen) == (BLen * BlkBitWidth) \div 8

MlasQNBitZeroPointsForBlksSizeInBytes(BlockCount) == MlasDivRoundup(BlockCount, 2)

\* variant: the blocks counted are the full ones
SQ4BitGemmPackQuantBDataSize_FullBlocks(N, K, BLen, CType) ==
    N * (K \div BLen) * MlasQNBitBlkDataSizeInBytes(BLen)

\* ComputeType is not referenced: same size regardless of ComputeType
SQ4BitGemmPackQuantBDataSize(N, K, BLen, CType) ==
    N * MlasDivRoundup(K, BLen) * MlasQNBitBlkDataSizeInBytes(BLen)

-----------------------------------------------------------------------------
(* The source matrix: code X(n, k) of column n at logical position k, stored *)
(* column-major, code 2j in the low and code 2j+1 in the high nibble of      *)
(* byte j of the column.                                                     *)

CodePattern(p, n, k) == ((2 * p + 1) * k + 5 * (k \div 16) + 3 * n + p) % 16

GuardLen == 8

SourceBytes(p, N, BlockCountK, BLen, guard) ==
    LET colBytes == BlockCountK * MlasQNBitBlkDataSizeInBytes(BLen)
        size == N * colBytes
    IN  [o \in 0..(size + GuardLen - 1) |->
            IF o < size
            THEN LET n == o \div colBytes
                     j == o % colBytes
                 IN  MakeByte(CodePattern(p, n, 2 * j), CodePattern(p, n, 2 * j + 1))
            ELSE guard]

\* X(n, k) read back from a source buffer
SourceCode(src, BlockCountK, BLen, n, k) ==
    LET b == src[n * BlockCountK * MlasQNBitBlkDataSizeInBytes(BLen) + k \div 2]
    IN  IF k % 2 = 0 THEN LowNibble(b) ELSE HighNibble(b)

-----------------------------------------------------------------------------
(* SQ4BitGemmPackQuantBData *)

BlockCountKOf(K, BLen) == MlasDivRoundup(K, BLen)

\* variant: sub-blocks of 16 in both modes
SubBlkLenOf_Always16(CType, BLen) == 16

SubBlkLenOf(CType, BLen) ==
    IF CType = "CompInt8" THEN (IF BLen = 16 THEN 16 ELSE 32) ELSE 16

\* offset of the data of unit tid in both buffers
PackDataOffset(tid, BlockCountK, BLen) ==
    LET n == tid \div BlockCountK
        k_blk == tid % BlockCountK
        BlkDataSize == MlasQNBitBlkDataSizeInBytes(BLen)
    IN  n * BlockCountK * BlkDataSize + k_blk * BlkDataSize

\* iterations of the loop "for (kk = 0; kk < BlkLen; kk += SubBlkLen)"
PackSubBlkCount(CType, BLen) == MlasDivRoundup(BLen, SubBlkLenOf(CType, BLen))

\* destination offsets written by unit tid
PackWrites(tid, CType, BlockCountK, BLen) ==
    LET base == PackDataOffset(tid, BlockCountK, BLen)
        SubBlkDataSize == SubBlkLenOf(CType, BLen) \div 2
    IN  base .. (base + PackSubBlkCount(CType, BLen) * SubBlkDataSize - 1)

\* source offsets read by unit tid
PackReads(tid, CType, BlockCountK, BLen) ==
    LET base == PackDataOffset(tid, BlockCountK, BLen)
        SubBlkDataSize == SubBlkLenOf(CType, BLen) \div 2
        SubBlkBytePairCount == SubBlkLenOf(CType, BLen) \div 4
    IN  UNION { { base + s * SubBlkDataSize + i,
                  base + s * SubBlkDataSize + i + SubBlkDataSize \div 2 } :
                <<s, i>> \in (0..(PackSubBlkCount(CType, BLen) - 1))
                             \X (0..(SubBlkBytePairCount - 1)) }

\* PackedByte with the second source byte taken next to the first one
PackedByte_AdjacentPair(src, o, tid, CType, BlockCountK, BLen) ==
    LET base == PackDataOffset(tid, BlockCountK, BLen)
        SubBlkDataSize == SubBlkLenOf(CType, BLen) \div 2
        s == (o - base) \div SubBlkDataSize
        r == (o - base) % SubBlkDataSize
        byte_pair_idx == r \div 2
        src0 == src[base + s * SubBlkDataSize + 2 * byte_pair_idx]
        src1 == src[base + s * SubBlkDataSize + 2 * byte_pair_idx + 1]
    IN  IF r % 2 = 0
        THEN MakeByte(LowNibble(src0), LowNibble(src1))
        ELSE MakeByte(HighNibble(src0), HighNibble(src1))

\* PackedByte with dst1 built from src0 alone
PackedByte_DropSrc1High(src, o, tid, CType, BlockCountK, BLen) ==
    LET base == PackDataOffset(tid, BlockCountK, BLen)
        SubBlkDataSize == SubBlkLenOf(CType, BLen) \div 2
        s == (o - base) \div SubBlkDataSize
        r == (o - base) % SubBlkDataSize
        byte_pair_idx == r \div 2
        src0 == src[base + s * SubBlkDataSize + byte_pair_idx]
        src1 == src[base + s * SubBlkDataSize + byte_pair_idx + SubBlkDataSize \div 2]
    IN  IF r % 2 = 0
        THEN MakeByte(LowNibble(src0), LowNibble(src1))
        ELSE MakeByte(HighNibble(src0), HighNibble(src0))

\* the byte the unit stores at destination offset o (o in PackWrites):
\* dst[2i] = lo(src0) | lo(src1) << 4, dst[2i+1] = hi(src0) | hi(src1) << 4
PackedByte(src, o, tid, CType, BlockCountK, BLen) ==
    LET base == PackDataOffset(tid, BlockCountK, BLen)
        SubBlkDataSize == SubBlkLenOf(CType, BLen) \div 2
        s == (o - base) \div SubBlkDataSize
        r == (o - base) % SubBlkDataSize
        byte_pair_idx == r \div 2
        src0 == src[base + s * SubBlkDataSize + byte_pair_idx]
        src1 == src[base + s * SubBlkDataSize + byte_pair_idx + SubBlkDataSize \div 2]
    IN  IF r % 2 = 0
        THEN MakeByte(LowNibble(src0), LowNibble(src1))
        ELSE MakeByte(HighNibble(src0), HighNibble(src1))

\* the body of the lambda run for one tid
PackUnit(src, dst, tid, CType, BlockCountK, BLen) ==
    LET w == PackWrites(tid, CType, BlockCountK, BLen)
    IN  [o \in DOMAIN dst |->
            IF o \in w THEN PackedByte(src, o, tid, CType, BlockCountK, BLen) ELSE dst[o]]

RECURSIVE PackUnitsInOrder(_, _, _, _, _, _, _)
\* units tid..Iterations-1 run one after the other (MlasTrySimpleParallel
\* without a pool): the units before mid, then the units from mid on
PackUnitsInOrder(src, dst, tid, Iterations, CType, BlockCountK, BLen) ==
    IF tid >= Iterations THEN dst
    ELSE IF tid + 1 = Iterations THEN PackUnit(src, dst, tid, CType, BlockCountK, BLen)
    ELSE LET mid == (tid + Iterations) \div 2
             next == PackUnitsInOrder(src, dst, tid, mid, CType, BlockCountK, BLen)
         IN  AndThen(next, PackUnitsInOrder(src, next, mid, Iterations, CType,
                                            BlockCountK, BLen))

-----------------------------------------------------------------------------
(* float32 arithmetic on integer values. *)

Abs(x) == IF x < 0 THEN -x ELSE x

TwoTo24 == 16777216

RECURSIVE UlpOf(_, _)
\* spacing of the floats around magnitude a >= 2^24 (u = 1 at the first call)
UlpOf(a, u) == IF a \div u < TwoTo24 THEN u ELSE UlpOf(a, 2 * u)

\* the float32 nearest to the integer x, ties to even
Fl(x) ==
    IF Abs(x) < TwoTo24 THEN x
    ELSE LET a == Abs(x)
             u == UlpOf(a, 1)
             q == a \div u
             r == a % u
             n == IF 2 * r > u \/ (2 * r = u /\ q % 2 = 1) THEN (q + 1) * u ELSE q * u
         IN  IF x < 0 THEN -n ELSE n

\* vfmaq_f32: a + b * c rounded once
Fma(a, b, c) == Fl(a + b * c)

\* vaddvq_f32: pairwise sum of the four lanes
AddV(v) == Fl(Fl(v[0] + v[1]) + Fl(v[2] + v[3]))

-----------------------------------------------------------------------------
(* fp32_conversion: a 4-bit code placed in the mantissa of a float in [16, 32). *)

float_high_half_template == 16768    \* 0b0'10000011'0000000

fp32_conversion_offset == 16

ShiftLeft(x, n) == x * 2^n

\* value of the float32 with the given bits (sign 0, no fraction left after scaling)
FloatOfBits(bits) ==
    LET exponent == (bits \div 2^23) % 256
        mantissa == bits % 2^23
    IN  IF exponent >= 150
        THEN (2^23 + mantissa) * 2^(exponent - 150)
        ELSE (2^23 + mantissa) \div 2^(150 - exponent)

\* vshll_n_u8(q, 3) | template, then vshll_n_u16(.., 16), reinterpreted as float.
\* The shifted code occupies bits 3..6, the template bits 7, 8 and 14: the or is a sum.
CodeToFloat(q) == FloatOfBits(ShiftLeft(ShiftLeft(q, 3) + float_high_half_template, 16))

fp32_conversion_table == [q \in 0..15 |-> CodeToFloat(q)]

-----------------------------------------------------------------------------
(* Layout of B's scales and zero-points. *)

StrideQuantBData == BlockCountKOf(CountK, BlkLen) * MlasQNBitBlkDataSizeInBytes(BlkLen)
StrideQuantBScale == BlockCountKOf(CountK, BlkLen)
StrideQuantBZeroPoint == MlasQNBitZeroPointsForBlksSizeInBytes(BlockCountKOf(CountK, BlkLen))

HasZeroPoint == QuantBZeroPoint # NULL

ScalePattern(n, b) == 1 + ((n + 2 * b) % 3)
ZeroPointPattern(n, b) == (5 + 3 * n + 7 * b) % 16

ScaleBuffer(N, BlockCount) ==
    [o \in 0..(N * BlockCount - 1) |-> ScalePattern(o \div BlockCount, o % BlockCount)]

ZeroPointBuffer(N, BlockCount) ==
    LET stride == MlasQNBitZeroPointsForBlksSizeInBytes(BlockCount)
    IN  [o \in 0..(N * stride - 1) |->
            MakeByte(ZeroPointPattern(o \div stride, 2 * (o % stride)),
                     ZeroPointPattern(o \div stride, 2 * (o % stride) + 1))]

-----------------------------------------------------------------------------
(* CompFp32 kernel. *)

\* zero-point of block QuantBZeroPointIdx of the column at QuantBZeroPointColPtr
ZeroPoint_CompFp32(QuantBZeroPointColPtr, QuantBZeroPointIdx) ==
    LET zp_packed == QuantBZeroPoint[QuantBZeroPointColPtr + QuantBZeroPointIdx \div 2]
    IN  IF QuantBZeroPointIdx % 2 = 1 THEN HighNibble(zp_packed) ELSE LowNibble(zp_packed)

\* offset subtracted from the converted code: conversion offset plus zero-point
Offset_CompFp32(n, k_blk) ==
    IF HasZeroPoint
    THEN Fl(fp32_conversion_offset + ZeroPoint_CompFp32(n * StrideQuantBZeroPoint, k_blk))
    ELSE Fl(fp32_conversion_offset + 8)

\* variant: the codes read in source order, two per byte
BvCode_CompFp32_SourceOrder(n, k_blk, k_idx_in_blk, e) ==
    LET byte == PackedQuantBDataBegin[
                    n * (BlockCountKOf(CountK, BlkLen) * MlasQNBitBlkDataSizeInBytes(BlkLen))
                        + k_blk * MlasQNBitBlkDataSizeInBytes(BlkLen)
                        + (k_idx_in_blk * BlkBitWidth) \div 8 + (e \div 2)]
    IN  IF e % 2 = 0 THEN LowNibble(byte) ELSE HighNibble(byte)

\* element e (0..15) of the 16 floats of B of a sub-block: bv[j][l] with e = 4j + l
\* is the low (j < 2) or high (j >= 2) nibble of byte 4 * (j % 2) + l
BvCode_CompFp32(n, k_blk, k_idx_in_blk, e) ==
    LET b_data_block_offset == (k_idx_in_blk * BlkBitWidth) \div 8
        byte == PackedQuantBDataBegin[
                    n * StrideQuantBData
                        + k_blk * MlasQNBitBlkDataSizeInBytes(BlkLen)
                        + b_data_block_offset + (e % 8)]
    IN  IF e < 8 THEN LowNibble(byte) ELSE HighNibble(byte)

\* dequantized element: (float(code) - offset) * scale
Bv_CompFp32(n, k_blk, k_idx_in_blk, e) ==
    Fl(Fl(fp32_conversion_table[BvCode_CompFp32(n, k_blk, k_idx_in_blk, e)]
             - Offset_CompFp32(n, k_blk))
       * QuantBScale[n * StrideQuantBScale + k_blk])

\* variant: the elements beyond count are left at one
Av_CompFp32_Ones(k, count, e) == IF e < count THEN A[k + e] ELSE 1

\* LoadFloatData: element e of the sub-block of A at k, zero beyond count
Av_CompFp32(k, count, e) == IF e < count THEN A[k + e] ELSE 0

RECURSIVE AccSubBlk_CompFp32(_, _, _, _, _, _)
\* lane l of acc[i] for column n after the fused multiply-adds j..3 of the
\* sub-block at k_idx_in_blk of block k_blk, from its value acc before them
AccSubBlk_CompFp32(n, l, k_blk, k_idx_in_blk, j, acc) ==
    IF j = 4 THEN acc
    ELSE LET k == k_blk * BlkLen
             k_blk_len == Min(CountK - k, BlkLen)
             k_subblk_len == Min(k_blk_len - k_idx_in_blk, 16)
             next == Fma(acc,
                         Av_CompFp32(k + k_idx_in_blk, k_subblk_len, 4 * j + l),
                         Bv_CompFp32(n, k_blk, k_idx_in_blk, 4 * j + l))
         IN  AndThen(next, AccSubBlk_CompFp32(n, l, k_blk, k_idx_in_blk, j + 1, next))

RECURSIVE AccBlk_CompFp32(_, _, _, _, _)
\* the inner loop: the sub-blocks of block k_blk from k_idx_in_blk on
AccBlk_CompFp32(n, l, k_blk, k_idx_in_blk, acc) ==
    IF k_idx_in_blk >= Min(CountK - k_blk * BlkLen, BlkLen) THEN acc
    ELSE LET next == AccSubBlk_CompFp32(n, l, k_blk, k_idx_in_blk, 0, acc)
         IN  AndThen(next, AccBlk_CompFp32(n, l, k_blk, k_idx_in_blk + 16, next))

RECURSIVE AccLane_CompFp32(_, _, _, _)
\* the outer loop: the blocks of the row from k_blk on
AccLane_CompFp32(n, l, k_blk, acc) ==
    IF k_blk * BlkLen >= CountK THEN acc
    ELSE LET next == AccBlk_CompFp32(n, l, k_blk, 0, acc)
         IN  AndThen(next, AccLane_CompFp32(n, l, k_blk + 1, next))

\* the four lanes of acc[i] after the loop over k
Acc_CompFp32(n) == [l \in 0..3 |-> AccLane_CompFp32(n, l, 0, 0)]

\* variant: the sums added to what C holds
ComputeDotProducts_Accumulate(NCols, n0, SumPtr, BiasPtr, Cbuf) ==
    [o \in DOMAIN Cbuf |->
        IF o >= SumPtr /\ o < SumPtr + NCols
        THEN LET i == o - SumPtr
                 sum == Fl(Cbuf[o] + AddV(Acc_CompFp32(n0 + i)))
             IN  IF BiasPtr # NullPtr THEN Fl(sum + Bias[BiasPtr + i]) ELSE sum
        ELSE Cbuf[o]]

\* variant: every column of a tile gets the bias of the tile's first column
ComputeDotProducts_FirstBias(NCols, n0, SumPtr, BiasPtr, Cbuf) ==
    [o \in DOMAIN Cbuf |->
        IF o >= SumPtr /\ o < SumPtr + NCols
        THEN LET i == o - SumPtr
                 sum == AddV(Acc_CompFp32(n0 + i))
             IN  IF BiasPtr # NullPtr THEN Fl(sum + Bias[BiasPtr]) ELSE sum
        ELSE Cbuf[o]]

\* variant: a whole vector of four lanes stored for fewer than four columns
ComputeDotProducts_StoresVector(NCols, n0, SumPtr, BiasPtr, Cbuf) ==
    [o \in DOMAIN Cbuf |->
        IF o >= SumPtr /\ o < SumPtr + NCols
        THEN LET i == o - SumPtr
                 sum == AddV(Acc_CompFp32(n0 + i))
             IN  IF BiasPtr # NullPtr THEN Fl(sum + Bias[BiasPtr + i]) ELSE sum
        ELSE IF o >= SumPtr + NCols /\ o < SumPtr + 4 THEN 0
        ELSE Cbuf[o]]

\* ComputeDotProducts_BlkBitWidth4_CompFp32<NCols>: the buffer C after the
\* NCols sums are stored at SumPtr, for the columns n0 .. n0 + NCols - 1
ComputeDotProducts_BlkBitWidth4_CompFp32(NCols, n0, SumPtr, BiasPtr, Cbuf) ==
    [o \in DOMAIN Cbuf |->
        IF o >= SumPtr /\ o < SumPtr + NCols
        THEN LET i == o - SumPtr
                 sum == AddV(Acc_CompFp32(n0 + i))
             IN  IF BiasPtr # NullPtr THEN Fl(sum + Bias[BiasPtr + i]) ELSE sum
        ELSE Cbuf[o]]

\* offsets of Bias read by ComputeDotProducts_BlkBitWidth4_CompFp32<NCols>
BiasReads_CompFp32(NCols, BiasPtr) ==
    IF BiasPtr # NullPtr THEN BiasPtr .. (BiasPtr + NCols - 1) ELSE {}

RECURSIVE SQ4BitGemmM1Kernel_CompFp32_NoTail(_, _, _, _)
\* variant: the columns left over after the strides of four are not computed
SQ4BitGemmM1Kernel_CompFp32_NoTail(n, SumPtr, BiasPtr, Cbuf) ==
    IF CountN - n >= 4
    THEN SQ4BitGemmM1Kernel_CompFp32_NoTail(
             n + 4, SumPtr + 4, IF BiasPtr # NullPtr THEN BiasPtr + 4 ELSE NullPtr,
             ComputeDotProducts_BlkBitWidth4_CompFp32(4, n, SumPtr, BiasPtr, Cbuf))
    ELSE Cbuf

RECURSIVE SQ4BitGemmM1Kernel_CompFp32_Cols(_, _, _, _)
\* the two column loops: four columns at a time while nblk >= 0, then one at a time
SQ4BitGemmM1Kernel_CompFp32_Cols(n, SumPtr, BiasPtr, Cbuf) ==
    IF CountN - n >= 4
    THEN SQ4BitGemmM1Kernel_CompFp32_Cols(
             n + 4, SumPtr + 4, IF BiasPtr # NullPtr THEN BiasPtr + 4 ELSE NullPtr,
             ComputeDotProducts_BlkBitWidth4_CompFp32(4, n, SumPtr, BiasPtr, Cbuf))
    ELSE IF CountN - n > 0
    THEN SQ4BitGemmM1Kernel_CompFp32_Cols(
             n + 1, SumPtr + 1, IF BiasPtr # NullPtr THEN BiasPtr + 1 ELSE NullPtr,
             ComputeDotProducts_BlkBitWidth4_CompFp32(1, n, SumPtr, BiasPtr, Cbuf))
    ELSE Cbuf

SQ4BitGemmM1Kernel_CompFp32(Cbuf) ==
    SQ4BitGemmM1Kernel_CompFp32_Cols(0, 0, IF Bias # NULL THEN 0 ELSE NullPtr, Cbuf)

-----------------------------------------------------------------------------
(* CompInt8 kernels. A quantized block of A is a float scale followed by     *)
(* BlkLen int8 values; the scale is held by the first of its four bytes.     *)

Q8BlkSize(BLen) == 4 + BLen
Q8BlkScale(BlkPtr) == QuantA[BlkPtr]
Q8BlkData(BlkPtr) == BlkPtr + 4

\* variant: the stride of the codes alone, without the scales
StrideQuantA_CodesOnly == BlockCountKOf(CountK, BlkLen) * BlkLen

StrideQuantA == BlockCountKOf(CountK, BlkLen) * Q8BlkSize(BlkLen)

\* alignof(float)
Q8BlkAlignment == 4

\* variant: a workspace per column of B
SQ4BitGemmPerGemmWorkspaceSize_PerColumn(M, N, K, BLen, CType) ==
    IF CType = "CompInt8" THEN M * N * MlasDivRoundup(K, BLen) * Q8BlkSize(BLen) ELSE 0

\* N is not referenced
SQ4BitGemmPerGemmWorkspaceSize(M, N, K, BLen, CType) ==
    IF CType = "CompInt8" THEN M * MlasDivRoundup(K, BLen) * Q8BlkSize(BLen) ELSE 0

\* BlkLen is not referenced
SQ4BitGemmPerGemmWorkspaceAlignment(BLen, CType) ==
    IF CType = "CompInt8" THEN Q8BlkAlignment ELSE 1

\* two's complement wrap-around of int8_t
Int8(x) == ((x + 128) % 256) - 128

\* lane l of vdotq_s32(acc, av, bv): av the 16 int8 values at APtr, bv[e] element e
\* of bv. At most 8 products of magnitude 128 * 128 are added: no int32 overflow.
VDotLane(acc, APtr, bv, l) ==
    acc + QuantA[APtr + 4 * l] * bv[4 * l]
        + QuantA[APtr + 4 * l + 1] * bv[4 * l + 1]
        + QuantA[APtr + 4 * l + 2] * bv[4 * l + 2]
        + QuantA[APtr + 4 * l + 3] * bv[4 * l + 3]

\* element e of vcombine_u8(low nibbles, high nibbles) of the 8 bytes at BPtr
BvCombine8(BPtr, e) ==
    IF e < 8 THEN LowNibble(PackedQuantBDataBegin[BPtr + e])
    ELSE HighNibble(PackedQuantBDataBegin[BPtr + e - 8])

\* variant: the low nibbles taken without the mask
BvLow16_Unmasked(BPtr, e) == PackedQuantBDataBegin[BPtr + e]

\* element e of the low and of the high nibbles of the 16 bytes at BPtr
BvLow16(BPtr, e) == LowNibble(PackedQuantBDataBegin[BPtr + e])
BvHigh16(BPtr, e) == HighNibble(PackedQuantBDataBegin[BPtr + e])

\* lane l of the dot product of the 16 values at APtr with the 16 codes of the
\* 8 bytes at BPtr, zero-point bzp subtracted
Dot16(APtr, BPtr, bzp, l) ==
    VDotLane(0, APtr, [e \in 0..15 |-> Int8(BvCombine8(BPtr, e) - bzp)], l)

\* lane l of the dot product of the 32 values at APtr with the 32 codes of the
\* 16 bytes at BPtr: the low nibbles with the first 16, the high with the next 16
Dot32(APtr, BPtr, bzp, l) ==
    VDotLane(VDotLane(0, APtr, [e \in 0..15 |-> Int8(BvLow16(BPtr, e) - bzp)], l),
             APtr + 16, [e \in 0..15 |-> Int8(BvHigh16(BPtr, e) - bzp)], l)

\* pointers of row m of A and of column n of B
QuantABlkPtr(m, k_blk_idx) == m * StrideQuantA + k_blk_idx * Q8BlkSize(BlkLen)
QuantBScaleAt(n, k_blk_idx) == QuantBScale[n * StrideQuantBScale + k_blk_idx]

\* combined scale of block k_blk_idx for row m and column n
CombinedScale(m, n, k_blk_idx) ==
    Fl(Q8BlkScale(QuantABlkPtr(m, k_blk_idx)) * QuantBScaleAt(n, k_blk_idx))

\* zero-point of the 2x2 routines: QuantBZeroPointPtr moves on after each odd
\* block, the nibble is chosen by the parity of k_blk_idx
Bzp_Compute2x2(n, k_blk_idx) ==
    IF HasZeroPoint
    THEN LET byte == QuantBZeroPoint[n * StrideQuantBZeroPoint + k_blk_idx \div 2]
         IN  IF k_blk_idx % 2 = 0 THEN LowNibble(byte) ELSE HighNibble(byte)
    ELSE 8

\* zero-point of the 1x1 routines for BlkLen 16 and 32: two blocks per
\* iteration take the low and the high nibble of one byte, a last single
\* block takes the low nibble of the next byte
Bzp_Compute1x1_TwoBlks(n, k_blk_idx) ==
    IF HasZeroPoint
    THEN LET byte == QuantBZeroPoint[n * StrideQuantBZeroPoint + k_blk_idx \div 2]
             inPair == 2 * (k_blk_idx \div 2) + 1 < BlockCountKOf(CountK, BlkLen)
         IN  IF inPair /\ k_blk_idx % 2 = 1 THEN HighNibble(byte) ELSE LowNibble(byte)
    ELSE 8

\* zero-point of the 1x1 routine for BlkLen > 32: QuantBZeroPointPtr moves on
\* after each odd block, the low nibble is taken for every block
Bzp_Compute1x1_BlkLenGreaterThan32(n, k_blk_idx) ==
    IF HasZeroPoint
    THEN LowNibble(QuantBZeroPoint[n * StrideQuantBZeroPoint + k_blk_idx \div 2])
    ELSE 8

RECURSIVE Acc_Compute2x2_BlkLen16(_, _, _, _, _)
\* lane l of the accumulator of element (m, n) of a 2x2 tile at the end of the
\* loop over the blocks, from its value acc before block k_blk_idx
Acc_Compute2x2_BlkLen16(m, n, l, k_blk_idx, acc) ==
    IF k_blk_idx = BlockCountKOf(CountK, BlkLen) THEN acc
    ELSE LET dot == Dot16(Q8BlkData(QuantABlkPtr(m, k_blk_idx)),
                          n * StrideQuantBData + 8 * k_blk_idx,
                          Bzp_Compute2x2(n, k_blk_idx), l)
             next == Fma(acc, Fl(dot), CombinedScale(m, n, k_blk_idx))
         IN  AndThen(next, Acc_Compute2x2_BlkLen16(m, n, l, k_blk_idx + 1, next))

RECURSIVE AccBlk_Compute2x2_BlkLenGreaterThan16(_, _, _, _, _, _)
\* the inner loop: the sub-blocks of 32 elements of block k_blk_idx from
\* sub_blk_idx on; QuantBDataPtr moves on by 16 bytes for each
AccBlk_Compute2x2_BlkLenGreaterThan16(m, n, l, k_blk_idx, sub_blk_idx, acc) ==
    IF sub_blk_idx = BlkLen \div 32 THEN acc
    ELSE LET SubBlksPerBlk == BlkLen \div 32
             dot == Dot32(Q8BlkData(QuantABlkPtr(m, k_blk_idx)) + 32 * sub_blk_idx,
                          n * StrideQuantBData
                              + 16 * (k_blk_idx * SubBlksPerBlk + sub_blk_idx),
                          Bzp_Compute2x2(n, k_blk_idx), l)
             next == Fma(acc, Fl(dot), CombinedScale(m, n, k_blk_idx))
         IN  AndThen(next, AccBlk_Compute2x2_BlkLenGreaterThan16(m, n, l, k_blk_idx,
                                                                 sub_blk_idx + 1, next))

RECURSIVE Acc_Compute2x2_BlkLenGreaterThan16(_, _, _, _, _)
\* the loop over the blocks from k_blk_idx on
Acc_Compute2x2_BlkLenGreaterThan16(m, n, l, k_blk_idx, acc) ==
    IF k_blk_idx = BlockCountKOf(CountK, BlkLen) THEN acc
    ELSE LET next == AccBlk_Compute2x2_BlkLenGreaterThan16(m, n, l, k_blk_idx, 0, acc)
         IN  AndThen(next, Acc_Compute2x2_BlkLenGreaterThan16(m, n, l, k_blk_idx + 1, next))

RECURSIVE Acc_Compute1x1_BlkLen16(_, _, _, _, _)
\* lane l of acc0 (which = 0) or acc1 (which = 1) at the end, from its value
\* before block k_blk_idx: acc0 takes the even blocks (the last single block
\* included), acc1 the odd ones
Acc_Compute1x1_BlkLen16(m, n, l, k_blk_idx, acc) ==
    IF k_blk_idx >= BlockCountKOf(CountK, BlkLen) THEN acc
    ELSE LET dot == Dot16(Q8BlkData(QuantABlkPtr(m, k_blk_idx)),
                          n * StrideQuantBData + 8 * k_blk_idx,
                          Bzp_Compute1x1_TwoBlks(n, k_blk_idx), l)
             next == Fma(acc, Fl(dot), CombinedScale(m, n, k_blk_idx))
         IN  AndThen(next, Acc_Compute1x1_BlkLen16(m, n, l, k_blk_idx + 2, next))

RECURSIVE Acc_Compute1x1_BlkLen32(_, _, _, _, _)
Acc_Compute1x1_BlkLen32(m, n, l, k_blk_idx, acc) ==
    IF k_blk_idx >= BlockCountKOf(CountK, BlkLen) THEN acc
    ELSE LET dot == Dot32(Q8BlkData(QuantABlkPtr(m, k_blk_idx)),
                          n * StrideQuantBData + 16 * k_blk_idx,
                          Bzp_Compute1x1_TwoBlks(n, k_blk_idx), l)
             next == Fma(acc, Fl(dot), CombinedScale(m, n, k_blk_idx))
         IN  AndThen(next, Acc_Compute1x1_BlkLen32(m, n, l, k_blk_idx + 2, next))

\* iterations of the sub-block loop of the 1x1 routine for BlkLen > 32, which
\* takes two sub-blocks of 32 elements at a time
Iterations_GreaterThan32 == (BlkLen \div 32 + 1) \div 2

RECURSIVE AccBlk_Compute1x1_BlkLenGreaterThan32(_, _, _, _, _, _, _)
\* lane l of acc0 (which = 0) or acc1 (which = 1) after the iterations of the
\* sub-block loop of block k_blk_idx from it on: acc0 takes the first 32
\* elements of the 64, acc1 the other 32
AccBlk_Compute1x1_BlkLenGreaterThan32(m, n, l, which, k_blk_idx, it, acc) ==
    IF it = Iterations_GreaterThan32 THEN acc
    ELSE LET t == k_blk_idx * Iterations_GreaterThan32 + it
             dot == Dot32(Q8BlkData(QuantABlkPtr(m, k_blk_idx)) + 64 * it + 32 * which,
                          n * StrideQuantBData + 32 * t + 16 * which,
                          Bzp_Compute1x1_BlkLenGreaterThan32(n, k_blk_idx), l)
             next == Fma(acc, Fl(dot), CombinedScale(m, n, k_blk_idx))
         IN  AndThen(next, AccBlk_Compute1x1_BlkLenGreaterThan32(m, n, l, which, k_blk_idx,
                                                                 it + 1, next))

RECURSIVE Acc_Compute1x1_BlkLenGreaterThan32(_, _, _, _, _, _)
\* the loop over the blocks from k_blk_idx on
Acc_Compute1x1_BlkLenGreaterThan32(m, n, l, which, k_blk_idx, acc) ==
    IF k_blk_idx = BlockCountKOf(CountK, BlkLen) THEN acc
    ELSE LET next == AccBlk_Compute1x1_BlkLenGreaterThan32(m, n, l, which, k_blk_idx, 0, acc)
         IN  AndThen(next, Acc_Compute1x1_BlkLenGreaterThan32(m, n, l, which,
                                                              k_blk_idx + 1, next))

\* the sums the routines store, before the bias
Sum_Compute2x2_BlkLen16(m, n) ==
    AddV([l \in 0..3 |-> Acc_Compute2x2_BlkLen16(m, n, l, 0, 0)])

Sum_Compute2x2_BlkLenGreaterThan16(m, n) ==
    AddV([l \in 0..3 |-> Acc_Compute2x2_BlkLenGreaterThan16(m, n, l, 0, 0)])

Sum_Compute1x1_BlkLen16(m, n) ==
    Fl(AddV([l \in 0..3 |-> Acc_Compute1x1_BlkLen16(m, n, l, 0, 0)])
       + AddV([l \in 0..3 |-> Acc_Compute1x1_BlkLen16(m, n, l, 1, 0)]))

Sum_Compute1x1_BlkLen32(m, n) ==
    Fl(AddV([l \in 0..3 |-> Acc_Compute1x1_BlkLen32(m, n, l, 0, 0)])
       + AddV([l \in 0..3 |-> Acc_Compute1x1_BlkLen32(m, n, l, 1, 0)]))

Sum_Compute1x1_BlkLenGreaterThan32(m, n) ==
    Fl(AddV([l \in 0..3 |-> Acc_Compute1x1_BlkLenGreaterThan32(m, n, l, 0, 0, 0)])
       + AddV([l \in 0..3 |-> Acc_Compute1x1_BlkLenGreaterThan32(m, n, l, 1, 0, 0)]))

\* SQ4BitGemmKernel_CompInt8_DispatchOnBlkLen: the routines of the three kernels
Sum_Compute2x2(m, n) ==
    IF BlkLen = 16 THEN Sum_Compute2x2_BlkLen16(m, n)
    ELSE Sum_Compute2x2_BlkLenGreaterThan16(m, n)

Sum_Compute1x1(m, n) ==
    IF BlkLen = 16 THEN Sum_Compute1x1_BlkLen16(m, n)
    ELSE IF BlkLen = 32 THEN Sum_Compute1x1_BlkLen32(m, n)
    ELSE Sum_Compute1x1_BlkLenGreaterThan32(m, n)

Bzp_Compute1x1(n, k_blk_idx) ==
    IF BlkLen = 16 \/ BlkLen = 32 THEN Bzp_Compute1x1_TwoBlks(n, k_blk_idx)
    ELSE Bzp_Compute1x1_BlkLenGreaterThan32(n, k_blk_idx)

\* the stores of a routine: sum, then sum + bias when BiasPtr is not null
WithBias(sum, BiasPtr, i) == IF BiasPtr # NullPtr THEN Fl(sum + Bias[BiasPtr + i]) ELSE sum

SQ4BitGemm_CompInt8_Compute2x2(m, n, SumPtr, BiasPtr, Cbuf) ==
    [o \in DOMAIN Cbuf |->
        IF o = SumPtr THEN WithBias(Sum_Compute2x2(m, n), BiasPtr, 0)
        ELSE IF o = SumPtr + 1
        THEN WithBias(Sum_Compute2x2(m, n + 1), BiasPtr, 1)
        ELSE IF o = SumPtr + ldc
        THEN WithBias(Sum_Compute2x2(m + 1, n), BiasPtr, 0)
        ELSE IF o = SumPtr + ldc + 1
        THEN WithBias(Sum_Compute2x2(m + 1, n + 1), BiasPtr, 1)
        ELSE Cbuf[o]]

SQ4BitGemm_CompInt8_Compute1x1(m, n, SumPtr, BiasPtr, Cbuf) ==
    [o \in DOMAIN Cbuf |->
        IF o = SumPtr THEN WithBias(Sum_Compute1x1(m, n), BiasPtr, 0)
        ELSE Cbuf[o]]

NextBias(BiasPtr, d) == IF BiasPtr # NullPtr THEN BiasPtr + d ELSE NullPtr

RECURSIVE SQ4BitGemmKernel_CompInt8_TwoRows(_, _, _, _, _)
\* the column loop of two rows m, m + 1: 2x2 tiles while n_remaining > 1, then
\* the 1x1 routine for each of the two rows in the last column
SQ4BitGemmKernel_CompInt8_TwoRows(m, n, SumPtr, BiasPtr, Cbuf) ==
    IF CountN - n > 1
    THEN SQ4BitGemmKernel_CompInt8_TwoRows(
             m, n + 2, SumPtr + 2, NextBias(BiasPtr, 2),
             SQ4BitGemm_CompInt8_Compute2x2(m, n, SumPtr, BiasPtr, Cbuf))
    ELSE IF CountN - n > 0
    THEN SQ4BitGemm_CompInt8_Compute1x1(
             m + 1, n, SumPtr + ldc, BiasPtr,
             SQ4BitGemm_CompInt8_Compute1x1(m, n, SumPtr, BiasPtr, Cbuf))
    ELSE Cbuf

RECURSIVE SQ4BitGemmKernel_CompInt8_OneRow(_, _, _, _, _)
\* the column loop of the last single row: 1x1 tiles
SQ4BitGemmKernel_CompInt8_OneRow(m, n, SumPtr, BiasPtr, Cbuf) ==
    IF CountN - n > 0
    THEN SQ4BitGemmKernel_CompInt8_OneRow(
             m, n + 1, SumPtr + 1, NextBias(BiasPtr, 1),
             SQ4BitGemm_CompInt8_Compute1x1(m, n, SumPtr, BiasPtr, Cbuf))
    ELSE Cbuf

RECURSIVE SQ4BitGemmKernel_CompInt8_Rows(_, _, _)
\* the row loop: two rows at a time while m_remaining > 1, then the last row
SQ4BitGemmKernel_CompInt8_Rows(m, SumRowPtr, Cbuf) ==
    IF CountM - m > 1
    THEN SQ4BitGemmKernel_CompInt8_Rows(
             m + 2, SumRowPtr + 2 * ldc,
             SQ4BitGemmKernel_CompInt8_TwoRows(
                 m, 0, SumRowPtr, IF Bias # NULL THEN 0 ELSE NullPtr, Cbuf))
    ELSE IF CountM - m > 0
    THEN SQ4BitGemmKernel_CompInt8_OneRow(
             m, 0, SumRowPtr, IF Bias # NULL THEN 0 ELSE NullPtr, Cbuf)
    ELSE Cbuf

SQ4BitGemmKernel_CompInt8(Cbuf) == SQ4BitGemmKernel_CompInt8_Rows(0, 0, Cbuf)

\* variant: no kernel of its own for blocks of 32
Kernel_DispatchOnBlkLen_No32 ==
    IF BlkLen = 16 THEN "SQ4BitGemmKernel_CompInt8_BlkLen16"
    ELSE "SQ4BitGemmKernel_CompInt8_BlkLenGreaterThan32"

\* variant: the routine of the looped kernel for blocks of 32
Routine_Compute1x1_No32 ==
    IF BlkLen = 16 THEN "SQ4BitGemm_CompInt8_Compute1x1_BlkLen16"
    ELSE "SQ4BitGemm_CompInt8_Compute1x1_BlkLenGreaterThan32"

\* variant: the rows counted are those processed in pairs
Ret_CompInt8_Pairs == 2 * (CountM \div 2)

\* SQ4BitGemmKernel_CompInt8_DispatchOnBlkLen: the kernel the call runs, and the
\* 2x2 and 1x1 routines that kernel calls
Kernel_DispatchOnBlkLen ==
    IF BlkLen = 16 THEN "SQ4BitGemmKernel_CompInt8_BlkLen16"
    ELSE IF BlkLen = 32 THEN "SQ4BitGemmKernel_CompInt8_BlkLen32"
    ELSE "SQ4BitGemmKernel_CompInt8_BlkLenGreaterThan32"

Routine_Compute2x2 ==
    IF BlkLen = 16 THEN "SQ4BitGemm_CompInt8_Compute2x2_BlkLen16"
    ELSE "SQ4BitGemm_CompInt8_Compute2x2_BlkLenGreaterThan16"

Routine_Compute1x1 ==
    IF BlkLen = 16 THEN "SQ4BitGemm_CompInt8_Compute1x1_BlkLen16"
    ELSE IF BlkLen = 32 THEN "SQ4BitGemm_CompInt8_Compute1x1_BlkLen32"
    ELSE "SQ4BitGemm_CompInt8_Compute1x1_BlkLenGreaterThan32"

\* a call of a routine<HasZeroPoint> by the kernel, for the tile at row m, column n
RoutineCall(routine, m, n, SumPtr, BiasPtr) ==
    [kernel |-> Kernel_DispatchOnBlkLen, routine |-> routine,
     HasZeroPoint |-> HasZeroPoint, m |-> m, n |-> n, SumPtr |-> SumPtr, BiasPtr |-> BiasPtr]

RECURSIVE Calls_CompInt8_TwoRows(_, _, _, _)
\* the routines called along the columns for the two rows m, m + 1
Calls_CompInt8_TwoRows(m, n, SumPtr, BiasPtr) ==
    IF CountN - n > 1
    THEN <<RoutineCall(Routine_Compute2x2, m, n, SumPtr, BiasPtr)>>
             \o Calls_CompInt8_TwoRows(m, n + 2, SumPtr + 2, NextBias(BiasPtr, 2))
    ELSE IF CountN - n > 0
    THEN <<RoutineCall(Routine_Compute1x1, m, n, SumPtr, BiasPtr),
           RoutineCall(Routine_Compute1x1, m + 1, n, SumPtr + ldc, BiasPtr)>>
    ELSE <<>>

RECURSIVE Calls_CompInt8_OneRow(_, _, _, _)
\* the routines called along the columns for the last single row
Calls_CompInt8_OneRow(m, n, SumPtr, BiasPtr) ==
    IF CountN - n > 0
    THEN <<RoutineCall(Routine_Compute1x1, m, n, SumPtr, BiasPtr)>>
             \o Calls_CompInt8_OneRow(m, n + 1, SumPtr + 1, NextBias(BiasPtr, 1))
    ELSE <<>>

RECURSIVE Calls_CompInt8_Rows(_, _)
Calls_CompInt8_Rows(m, SumRowPtr) ==
    IF CountM - m > 1
    THEN Calls_CompInt8_TwoRows(m, 0, SumRowPtr, IF Bias # NULL THEN 0 ELSE NullPtr)
             \o Calls_CompInt8_Rows(m + 2, SumRowPtr + 2 * ldc)
    ELSE IF CountM - m > 0
    THEN Calls_CompInt8_OneRow(m, 0, SumRowPtr, IF Bias # NULL THEN 0 ELSE NullPtr)
    ELSE <<>>

Calls_CompInt8 == Calls_CompInt8_Rows(0, 0)

\* SQ4BitGemmKernel_CompInt8: return CountM
Ret_CompInt8 == CountM

\* the routine that produces element (m, n)
InTile2x2(m, n) == m < 2 * (CountM \div 2) /\ n < 2 * (CountN \div 2)

\* the zero-point subtracted from the codes of block k_blk_idx for element (m, n)
ZeroPointsUsed_CompInt8 ==
    [x \in (0..(CountM - 1)) \X (0..(CountN - 1)) \X (0..(BlockCountKOf(CountK, BlkLen) - 1)) |->
        IF InTile2x2(x[1], x[2]) THEN Bzp_Compute2x2(x[2], x[3])
        ELSE Bzp_Compute1x1(x[2], x[3])]

RECURSIVE BiasReadsOfCols_CompInt8(_, _, _)
\* offsets of Bias read along the columns, for a pair of rows (rows = 2: two per
\* 2x2 tile, one in the last column) or for the last row (rows = 1)
BiasReadsOfCols_CompInt8(n, BiasPtr, rows) ==
    IF BiasPtr = NullPtr THEN {}
    ELSE IF rows = 2 /\ CountN - n > 1
    THEN {BiasPtr, BiasPtr + 1} \cup BiasReadsOfCols_CompInt8(n + 2, BiasPtr + 2, rows)
    ELSE IF rows = 2 /\ CountN - n > 0
    THEN {BiasPtr}
    ELSE IF rows = 1 /\ CountN - n > 0
    THEN {BiasPtr} \cup BiasReadsOfCols_CompInt8(n + 1, BiasPtr + 1, rows)
    ELSE {}

BiasReads_CompInt8 ==
    LET BiasPtr == IF Bias # NULL THEN 0 ELSE NullPtr
    IN  (IF CountM > 1 THEN BiasReadsOfCols_CompInt8(0, BiasPtr, 2) ELSE {})
            \cup (IF CountM % 2 = 1 THEN BiasReadsOfCols_CompInt8(0, BiasPtr, 1) ELSE {})

-----------------------------------------------------------------------------
(* State not used by a specification keeps these values. *)

NoGemm ==
    /\ CountM = 0 /\ QuantBScale = NULL /\ QuantBZeroPoint = NULL /\ Bias = NULL
    /\ A = NULL /\ QuantA = NULL /\ C = NULL /\ ldc = 0 /\ zpUsed = NULL
    /\ biasReads = {} /\ calls = <<>> /\ ret = NULL /\ prev = <<>> /\ loop = NULL /\ value_indexes = NULL /\ FpData = NULL

gemmVars == <<CountM, QuantBScale, QuantBZeroPoint, Bias, A, QuantA, C, ldc, zpUsed,
              biasReads, calls, ret, prev, loop, FpData, value_indexes>>

-----------------------------------------------------------------------------
(* Packing, one work unit at a time, in any order. *)

PackKs(BLen) == { (b - 1) * BLen + t : <<b, t>> \in (1..MaxBlockCountK) \X {1, BLen} }

InitPack ==
    /\ pc = "packing"
    /\ ComputeType \in ComputeTypes
    /\ BlkLen \in BlkLens
    /\ CountN \in 1..MaxPackN
    /\ CountK \in PackKs(BlkLen)
    /\ CountN * BlockCountKOf(CountK, BlkLen) <= MaxPackUnits
    /\ \E p \in 0..MaxPattern, g \in GuardBytes :
          QuantBDataBegin = SourceBytes(p, CountN, BlockCountKOf(CountK, BlkLen), BlkLen, g)
    /\ \E g \in GuardBytes :
          PackedQuantBDataBegin =
              [o \in 0..(SQ4BitGemmPackQuantBDataSize(CountN, CountK, BlkLen, ComputeType) + GuardLen - 1) |-> g]
    /\ pending = 0..(CountN * BlockCountKOf(CountK, BlkLen) - 1)
    /\ touched = [tid \in pending |-> {}]
    /\ fetched = [tid \in pending |-> {}]
    /\ NoGemm

RunPackUnit(tid) ==
    /\ pc = "packing"
    /\ tid \in pending
    /\ PackedQuantBDataBegin' =
           PackUnit(QuantBDataBegin, PackedQuantBDataBegin, tid, ComputeType,
                    BlockCountKOf(CountK, BlkLen), BlkLen)
    /\ touched' = [touched EXCEPT ![tid] =
                      PackWrites(tid, ComputeType, BlockCountKOf(CountK, BlkLen), BlkLen)]
    /\ fetched' = [fetched EXCEPT ![tid] =
                      PackReads(tid, ComputeType, BlockCountKOf(CountK, BlkLen), BlkLen)]
    /\ pending' = pending \ {tid}
    /\ pc' = IF pending' = {} THEN "packed" ELSE "packing"
    /\ UNCHANGED <<ComputeType, BlkLen, CountN, CountK, QuantBDataBegin>>
    /\ UNCHANGED gemmVars

NextPack == \E tid \in 0..(MaxPackN * MaxBlockCountK - 1) : RunPackUnit(tid)

SpecPack == InitPack /\ [][NextPack]_vars

-----------------------------------------------------------------------------
(* Inputs of a GEMM call. *)

MaxN == 5              \* columns of B in the GEMM specifications
CGuardLen == 2         \* elements of C after the last one of a row that the call owns

BiasPattern(n) == 3 * n + 1
BiasBuffer(N) == [n \in 0..(N - 1) |-> BiasPattern(n)]

\* contents of C before the first call
PriorC(len) == [o \in 0..(len - 1) |-> 7 + o]

UnitRow(K, j) == [k \in 0..(K - 1) |-> IF k = j THEN 1 ELSE 0]
RampRow(K) == [k \in 0..(K - 1) |-> (k % 5) - 2]
BigRow(K) == [k \in 0..(K - 1) |-> IF k = 0 THEN TwoTo24 ELSE 0]

\* the dense rows of A
DenseRows(K) == { RampRow(K), BigRow(K) }

\* B packed by SQ4BitGemmPackQuantBData, its units run in order
PackedB(src, N, K, CType, BLen) ==
    PackUnitsInOrder(src, [o \in DOMAIN src |-> 0], 0, N * BlockCountKOf(K, BLen),
                     CType, BlockCountKOf(K, BLen), BLen)

InitPackedB(CType, p) ==
    /\ ComputeType = CType
    /\ QuantBDataBegin = SourceBytes(p, CountN, BlockCountKOf(CountK, BlkLen), BlkLen, 0)
    /\ PackedQuantBDataBegin = PackedB(QuantBDataBegin, CountN, CountK, CType, BlkLen)
    /\ pending = {}
    /\ touched = [tid \in 0..(CountN * BlockCountKOf(CountK, BlkLen) - 1) |->
                     PackWrites(tid, CType, BlockCountKOf(CountK, BlkLen), BlkLen)]
    /\ fetched = [tid \in 0..(CountN * BlockCountKOf(CountK, BlkLen) - 1) |->
                     PackReads(tid, CType, BlockCountKOf(CountK, BlkLen), BlkLen)]
    /\ QuantBScale = ScaleBuffer(CountN, BlockCountKOf(CountK, BlkLen))
    /\ QuantBZeroPoint \in {NULL, ZeroPointBuffer(CountN, BlockCountKOf(CountK, BlkLen))}

packVars == <<ComputeType, BlkLen, CountN, CountK, QuantBDataBegin, PackedQuantBDataBegin,
              pending, touched, fetched, QuantBScale, QuantBZeroPoint>>

-----------------------------------------------------------------------------
(* The float-mode row kernel called once on a packed B. *)

Fp32BlkLens == {16, 32, 48}
\* row lengths: one block (partial and full), and MaxBlockCountK blocks with a
\* partial last block
Fp32Ks(BLen) ==
    {BLen - 6, BLen} \cup { (MaxBlockCountK - 1) * BLen + t : t \in {1, BLen - 5} }

InitFp32Over(Ns) ==
    /\ pc = "packed"
    /\ BlkLen \in Fp32BlkLens
    /\ CountN \in Ns
    /\ CountK \in Fp32Ks(BlkLen)
    /\ CountM = 1
    /\ InitPackedB("CompFp32", 0)
    /\ Bias = NULL /\ A = NULL /\ QuantA = NULL /\ C = NULL /\ ldc = 0
    /\ zpUsed = NULL /\ biasReads = {} /\ calls = <<>> /\ ret = NULL /\ prev = <<>> /\ loop = NULL /\ value_indexes = NULL /\ FpData = NULL

InitFp32 == InitFp32Over(0..MaxN)

\* the caller's buffers of a first call
SetupCall(a, qa, bias) ==
    /\ pc = "packed"
    /\ A' = a
    /\ QuantA' = qa
    /\ Bias' = bias
    /\ ldc' = CountN + CGuardLen
    /\ C' = PriorC(CountM * (CountN + CGuardLen))
    /\ pc' = "ready"
    /\ UNCHANGED <<CountM, zpUsed, biasReads, calls, ret, prev, loop, FpData, value_indexes>>
    /\ UNCHANGED packVars

SetupUnitCall_CompFp32 ==
    /\ ComputeType = "CompFp32"
    /\ CountN = MaxN
    /\ \E j \in 0..(CountK - 1) : SetupCall(UnitRow(CountK, j), NULL, NULL)

SetupDenseCall_CompFp32 ==
    /\ ComputeType = "CompFp32"
    /\ \E a \in DenseRows(CountK), bias \in {NULL, BiasBuffer(CountN)} :
          SetupCall(a, NULL, bias)

RECURSIVE BiasReadsOfCols_CompFp32(_, _)
BiasReadsOfCols_CompFp32(n, BiasPtr) ==
    IF CountN - n >= 4
    THEN BiasReads_CompFp32(4, BiasPtr)
             \cup BiasReadsOfCols_CompFp32(n + 4, IF BiasPtr # NullPtr THEN BiasPtr + 4 ELSE NullPtr)
    ELSE IF CountN - n > 0
    THEN BiasReads_CompFp32(1, BiasPtr)
             \cup BiasReadsOfCols_CompFp32(n + 1, IF BiasPtr # NullPtr THEN BiasPtr + 1 ELSE NullPtr)
    ELSE {}

RECURSIVE Calls_CompFp32(_, _, _)
\* the calls of ComputeDotProducts_BlkBitWidth4_CompFp32<NCols, HasZeroPoint> the
\* two column loops make from column n on, with the column, SumPtr and BiasPtr
\* each is given
Calls_CompFp32(n, SumPtr, BiasPtr) ==
    IF CountN - n >= 4
    THEN <<[routine |-> "ComputeDotProducts_BlkBitWidth4_CompFp32", NCols |-> 4,
            HasZeroPoint |-> HasZeroPoint, n |-> n, SumPtr |-> SumPtr, BiasPtr |-> BiasPtr]>>
             \o Calls_CompFp32(n + 4, SumPtr + 4,
                               IF BiasPtr # NullPtr THEN BiasPtr + 4 ELSE NullPtr)
    ELSE IF CountN - n > 0
    THEN <<[routine |-> "ComputeDotProducts_BlkBitWidth4_CompFp32", NCols |-> 1,
            HasZeroPoint |-> HasZeroPoint, n |-> n, SumPtr |-> SumPtr, BiasPtr |-> BiasPtr]>>
             \o Calls_CompFp32(n + 1, SumPtr + 1,
                               IF BiasPtr # NullPtr THEN BiasPtr + 1 ELSE NullPtr)
    ELSE <<>>

ZeroPointsUsed_CompFp32 ==
    [x \in {0} \X (0..(CountN - 1)) \X (0..(BlockCountKOf(CountK, BlkLen) - 1)) |->
        IF HasZeroPoint
        THEN ZeroPoint_CompFp32(x[2] * StrideQuantBZeroPoint, x[3])
        ELSE 8]

Call_CompFp32 ==
    /\ pc = "ready"
    /\ ComputeType = "CompFp32"
    /\ C' = SQ4BitGemmM1Kernel_CompFp32(C)
    /\ biasReads' = BiasReadsOfCols_CompFp32(0, IF Bias # NULL THEN 0 ELSE NullPtr)
    /\ zpUsed' = ZeroPointsUsed_CompFp32
    /\ calls' = Calls_CompFp32(0, 0, IF Bias # NULL THEN 0 ELSE NullPtr)
    /\ ret' = NULL
    /\ pc' = "called"
    /\ UNCHANGED <<CountM, Bias, A, QuantA, ldc, prev, loop, FpData, value_indexes>>
    /\ UNCHANGED packVars

NextFp32 == SetupUnitCall_CompFp32 \/ SetupDenseCall_CompFp32 \/ Call_CompFp32

SpecFp32 == InitFp32 /\ [][NextFp32]_vars

-----------------------------------------------------------------------------
(* The int8-mode kernel called once on a packed B and a quantized A. *)

MaxM == 3              \* rows of A in the int8 specifications

Int8BlkLens == {16, 32, 64, 128}

\* scale of block b of row m of the quantized A
ScaleAPattern(m, b) == 1 + ((2 * m + b) % 3)

\* position, in every block, of the value of largest magnitude: its code is 127
PeakAt(m, b) == (3 * m + b) % 16

\* codes of a dense row: the largest magnitude of every block quantizes to 127
DenseCode(m, b, k) == IF k = PeakAt(m, b) THEN 127 ELSE ((3 * k + 5 * m + 7 * b) % 11) - 5

\* the quantized row that is 127 * scale at position j and 0 elsewhere: code
\* 127 at j; the blocks of zeros have scale 0
UnitQuantA(M, BlockCount, BLen, j) ==
    [o \in 0..(M * BlockCount * Q8BlkSize(BLen) - 1) |->
        LET blk == o \div Q8BlkSize(BLen)
            m == blk \div BlockCount
            b == blk % BlockCount
            i == o % Q8BlkSize(BLen)
        IN  IF i = 0 THEN (IF j \div BLen = b THEN ScaleAPattern(m, b) ELSE 0)
            ELSE IF i < 4 THEN 0
            ELSE IF b * BLen + (i - 4) = j THEN 127 ELSE 0]

\* factor of the scales that takes the sums beyond 2^24
BigScale == 4096

\* dense quantized rows, the scales multiplied by factor
DenseQuantA(M, BlockCount, BLen, factor) ==
    [o \in 0..(M * BlockCount * Q8BlkSize(BLen) - 1) |->
        LET blk == o \div Q8BlkSize(BLen)
            m == blk \div BlockCount
            b == blk % BlockCount
            i == o % Q8BlkSize(BLen)
        IN  IF i = 0 THEN factor * ScaleAPattern(m, b)
            ELSE IF i < 4 THEN 0
            ELSE DenseCode(m, b, i - 4)]

InitInt8Over(Ms, Ns) ==
    /\ pc = "packed"
    /\ BlkLen \in Int8BlkLens
    /\ CountM \in Ms
    /\ CountN \in Ns
    /\ \E Blks \in 1..MaxBlockCountK : CountK = Blks * BlkLen
    /\ InitPackedB("CompInt8", 0)
    /\ Bias = NULL /\ A = NULL /\ QuantA = NULL /\ C = NULL /\ ldc = 0
    /\ zpUsed = NULL /\ biasReads = {} /\ calls = <<>> /\ ret = NULL /\ prev = <<>> /\ loop = NULL /\ value_indexes = NULL /\ FpData = NULL

InitInt8 == InitInt8Over(1..MaxM, 1..MaxN)

SetupUnitCall_CompInt8 ==
    /\ ComputeType = "CompInt8"
    /\ CountM = 2 /\ CountN = 3
    /\ \E j \in 0..(CountK - 1) :
          SetupCall(NULL, UnitQuantA(CountM, BlockCountKOf(CountK, BlkLen), BlkLen, j), NULL)

SetupDenseCall_CompInt8 ==
    /\ ComputeType = "CompInt8"
    /\ \E f \in {1, BigScale}, bias \in {NULL, BiasBuffer(CountN)} :
          SetupCall(NULL, DenseQuantA(CountM, BlockCountKOf(CountK, BlkLen), BlkLen, f), bias)

Call_CompInt8 ==
    /\ pc = "ready"
    /\ ComputeType = "CompInt8"
    /\ C' = SQ4BitGemmKernel_CompInt8(C)
    /\ biasReads' = BiasReads_CompInt8
    /\ zpUsed' = ZeroPointsUsed_CompInt8
    /\ calls' = Calls_CompInt8
    /\ ret' = Ret_CompInt8
    /\ pc' = "called"
    /\ UNCHANGED <<CountM, Bias, A, QuantA, ldc, prev, loop, FpData, value_indexes>>
    /\ UNCHANGED packVars

NextInt8 == SetupUnitCall_CompInt8 \/ SetupDenseCall_CompInt8 \/ Call_CompInt8

SpecInt8 == InitInt8 /\ [][NextInt8]_vars

-----------------------------------------------------------------------------
(* Either kernel called twice with the same A and B: the second call finds   *)
(* in C what the first call left there.                                      *)

InitGemm == InitFp32Over({1, MaxN}) \/ InitInt8Over(1..MaxM, {MaxM - 1, MaxM})

SetupSecondCall ==
    /\ pc = "called"
    /\ prev = <<>>
    /\ prev' = <<[Bias |-> Bias, C |-> C]>>
    /\ Bias' \in {NULL, BiasBuffer(CountN)}
    /\ pc' = "ready"
    /\ UNCHANGED <<CountM, A, QuantA, C, ldc, zpUsed, biasReads, calls, ret, loop, FpData, value_indexes>>
    /\ UNCHANGED packVars

NextGemm ==
    \/ SetupDenseCall_CompFp32
    \/ SetupDenseCall_CompInt8
    \/ SetupSecondCall
    \/ Call_CompFp32
    \/ Call_CompInt8

SpecGemm == InitGemm /\ [][NextGemm]_vars

-----------------------------------------------------------------------------
(* Either kernel called on a row of zeros of A, or on a B whose blocks all   *)
(* dequantize to zero: codes equal to the zero-point of their block, or      *)
(* scales of 0.                                                              *)

\* source codes of B that are all the zero-point of their block, the
\* zero-points those of the buffer zps, or 8 when zps is null
ZeroPointSource(N, BlockCount, BLen, zps) ==
    LET blkBytes == MlasQNBitBlkDataSizeInBytes(BLen)
        colBytes == BlockCount * blkBytes
        size == N * colBytes
        stride == MlasQNBitZeroPointsForBlksSizeInBytes(BlockCount)
    IN  [o \in 0..(size + GuardLen - 1) |->
            IF o < size
            THEN LET n == o \div colBytes
                     b == (o % colBytes) \div blkBytes
                     byte == IF zps = NULL THEN MakeByte(8, 8) ELSE zps[n * stride + b \div 2]
                     zp == IF b % 2 = 0 THEN LowNibble(byte) ELSE HighNibble(byte)
                 IN  MakeByte(zp, zp)
            ELSE 0]

ZeroScaleBuffer(N, BlockCount) == [o \in 0..(N * BlockCount - 1) |-> 0]

ZeroRow(K) == [k \in 0..(K - 1) |-> 0]

\* rows quantized from zeros: every scale 0 and every code 0
ZeroQuantA(M, BlockCount, BLen) == [o \in 0..(M * BlockCount * Q8BlkSize(BLen) - 1) |-> 0]

InitZeroB(kind) ==
    /\ QuantBZeroPoint \in {NULL, ZeroPointBuffer(CountN, BlockCountKOf(CountK, BlkLen))}
    /\ QuantBDataBegin =
           IF kind = "codes"
           THEN ZeroPointSource(CountN, BlockCountKOf(CountK, BlkLen), BlkLen, QuantBZeroPoint)
           ELSE SourceBytes(0, CountN, BlockCountKOf(CountK, BlkLen), BlkLen, 0)
    /\ QuantBScale =
           IF kind = "scales"
           THEN ZeroScaleBuffer(CountN, BlockCountKOf(CountK, BlkLen))
           ELSE ScaleBuffer(CountN, BlockCountKOf(CountK, BlkLen))
    /\ PackedQuantBDataBegin = PackedB(QuantBDataBegin, CountN, CountK, ComputeType, BlkLen)
    /\ pending = {}
    /\ touched = [tid \in 0..(CountN * BlockCountKOf(CountK, BlkLen) - 1) |->
                     PackWrites(tid, ComputeType, BlockCountKOf(CountK, BlkLen), BlkLen)]
    /\ fetched = [tid \in 0..(CountN * BlockCountKOf(CountK, BlkLen) - 1) |->
                     PackReads(tid, ComputeType, BlockCountKOf(CountK, BlkLen), BlkLen)]

InitZero ==
    /\ pc = "packed"
    /\ ComputeType \in ComputeTypes
    /\ BlkLen \in IF ComputeType = "CompFp32" THEN Fp32BlkLens ELSE Int8BlkLens
    /\ CountM \in IF ComputeType = "CompFp32" THEN {1} ELSE 1..2
    /\ CountN \in 1..MaxM
    /\ CountK \in IF ComputeType = "CompFp32" THEN Fp32Ks(BlkLen)
                  ELSE {Blks * BlkLen : Blks \in 1..MaxBlockCountK}
    /\ \E kind \in {"pattern", "codes", "scales"} : InitZeroB(kind)
    /\ Bias = NULL /\ A = NULL /\ QuantA = NULL /\ C = NULL /\ ldc = 0
    /\ zpUsed = NULL /\ biasReads = {} /\ calls = <<>> /\ ret = NULL /\ prev = <<>> /\ loop = NULL /\ value_indexes = NULL /\ FpData = NULL

\* the B of the call has the codes and the scales of the patterns
PatternB ==
    /\ QuantBDataBegin = SourceBytes(0, CountN, BlockCountKOf(CountK, BlkLen), BlkLen, 0)
    /\ QuantBScale = ScaleBuffer(CountN, BlockCountKOf(CountK, BlkLen))

\* a row of zeros with any B, a dense row with a B of zeros
SetupZeroCall_CompFp32 ==
    /\ ComputeType = "CompFp32"
    /\ \E a \in {ZeroRow(CountK)} \cup (IF PatternB THEN {} ELSE {RampRow(CountK)}),
          bias \in {NULL, BiasBuffer(CountN)} :
          SetupCall(a, NULL, bias)

SetupZeroCall_CompInt8 ==
    /\ ComputeType = "CompInt8"
    /\ \E qa \in {ZeroQuantA(CountM, BlockCountKOf(CountK, BlkLen), BlkLen)}
                    \cup (IF PatternB THEN {}
                          ELSE {DenseQuantA(CountM, BlockCountKOf(CountK, BlkLen), BlkLen, 1)}),
          bias \in {NULL, BiasBuffer(CountN)} :
          SetupCall(NULL, qa, bias)

NextZero ==
    \/ SetupZeroCall_CompFp32
    \/ SetupZeroCall_CompInt8
    \/ Call_CompFp32
    \/ Call_CompInt8

SpecZero == InitZero /\ [][NextZero]_vars

-----------------------------------------------------------------------------
(* Quantization of a row of A (CompInt8). The floats of this part may have   *)
(* fractions: <<m, e>> is the float m * 2^e with m odd, and <<0, 0>> is 0.   *)
(* The rows quantized have elements of at most 7 significant bits and        *)
(* exponents near 0: no product of two mantissas reaches 2^31 and no result  *)
(* overflows float32 or is subnormal.                                         *)

Zero == <<0, 0>>
One == <<1, 0>>
\* the result of a division by zero (infinity or NaN)
NotFinite == <<0, 1>>

RECURSIVE Canon(_, _)
\* the float m * 2^e, m of at most 24 bits
Canon(m, e) ==
    IF m = 0 THEN Zero
    ELSE IF m % 2 = 0 THEN Canon(m \div 2, e + 1)
    ELSE <<m, e>>

\* vabsq_f32
FAbs(x) == <<Abs(x[1]), x[2]>>

\* x < y
FLess(x, y) ==
    LET e == Min(x[2], y[2])
    IN  x[1] * 2^(x[2] - e) < y[1] * 2^(y[2] - e)

\* std::max, vmaxq_f32, vmaxvq_f32 of two values
FMax(x, y) == IF FLess(x, y) THEN y ELSE x

RECURSIVE Norm24(_, _)
\* m * 2^e, m > 0, with the mantissa brought to 24 bits
Norm24(m, e) == IF m >= 8388608 THEN <<m, e>> ELSE Norm24(2 * m, e - 1)

RECURSIVE DivSteps(_, _, _, _)
\* long division: steps more binary digits of rem / den after the digits q
DivSteps(rem, den, q, steps) ==
    IF steps = 0 THEN <<q, rem>>
    ELSE IF 2 * rem >= den THEN DivSteps(2 * rem - den, den, 2 * q + 1, steps - 1)
    ELSE DivSteps(2 * rem, den, 2 * q, steps - 1)

\* x / y in float32: the quotient to 24 bits, rounded to nearest, ties to even
FDiv(x, y) ==
    IF y = Zero THEN NotFinite
    ELSE IF x = Zero THEN Zero
    ELSE LET nx == Norm24(Abs(x[1]), x[2])
             ny == Norm24(Abs(y[1]), y[2])
             q0 == IF nx[1] >= ny[1] THEN 1 ELSE 0
             steps == IF q0 = 1 THEN 23 ELSE 24
             d == DivSteps(nx[1] - q0 * ny[1], ny[1], q0, steps)
             up == 2 * d[2] > ny[1] \/ (2 * d[2] = ny[1] /\ d[1] % 2 = 1)
             mant == IF up THEN d[1] + 1 ELSE d[1]
             sign == IF (x[1] < 0) = (y[1] < 0) THEN 1 ELSE -1
         IN  Canon(sign * mant, nx[2] - ny[2] - steps)

\* x * y in float32 (vmulq_n_f32): the product rounded to 24 bits
FMul(x, y) == Canon(Fl(x[1] * y[1]), x[2] + y[2])

\* variant (vcvtnq_s32_f32): to the nearest integer, ties to even
Vcvtnq_s32_f32(x) ==
    IF x[2] >= 0 THEN x[1] * 2^x[2]
    ELSE IF -x[2] > 25 THEN 0
    ELSE LET d == 2^(-x[2])
             q == Abs(x[1]) \div d
             r == Abs(x[1]) % d
             n == IF 2 * r > d \/ (2 * r = d /\ q % 2 = 1) THEN q + 1 ELSE q
         IN  IF x[1] < 0 THEN -n ELSE n

\* vcvtaq_s32_f32: to the nearest integer, ties away from zero
Vcvtaq_s32_f32(x) ==
    IF x[2] >= 0 THEN x[1] * 2^x[2]
    ELSE IF -x[2] > 25 THEN 0
    ELSE LET d == 2^(-x[2])
             q == Abs(x[1]) \div d
             r == Abs(x[1]) % d
             n == IF 2 * r >= d THEN q + 1 ELSE q
         IN  IF x[1] < 0 THEN -n ELSE n

\* LoadFloatData<16>: the 16 lanes of dst after count <= 16 floats are loaded
\* from A at src
LoadFloatData(src, count, dst) ==
    [e \in 0..15 |-> IF e < count THEN A[src + e] ELSE dst[e]]

\* float32x4_t a[SubBlkLen / 4]{}
ZeroVectors == [e \in 0..15 |-> Zero]

\* amax of the 16 lanes a: vabsq_f32, vmaxq_f32 at intervals 2 and 1, vmaxvq_f32
SubBlkAmax(a) ==
    LET abs_a == [e \in 0..15 |-> FAbs(a[e])]
        at2 == [e \in 0..7 |-> FMax(abs_a[e], abs_a[e + 8])]
        at1 == [e \in 0..3 |-> FMax(at2[e], at2[e + 4])]
    IN  FMax(FMax(at1[0], at1[1]), FMax(at1[2], at1[3]))

RECURSIVE QuantizeBlock_Amax(_, _, _, _)
\* the first loop of QuantizeBlock from k on
QuantizeBlock_Amax(APtr, ElementCount, k, amax) ==
    IF k >= ElementCount THEN amax
    ELSE LET a == LoadFloatData(APtr + k, Min(ElementCount - k, 16), ZeroVectors)
         IN  QuantizeBlock_Amax(APtr, ElementCount, k + 16, FMax(amax, SubBlkAmax(a)))

range_max == <<127, 0>>

\* variant: the range of the codes taken as 128
QuantizeBlock_Scale_Range128(APtr, ElementCount) ==
    FDiv(QuantizeBlock_Amax(APtr, ElementCount, 0, Zero), <<1, 7>>)

QuantizeBlock_Scale(APtr, ElementCount) ==
    FDiv(QuantizeBlock_Amax(APtr, ElementCount, 0, Zero), range_max)

QuantizeBlock_ScaleReciprocal(scale) ==
    IF scale # Zero THEN FDiv(One, scale) ELSE Zero

\* static_cast<int8_t>(vgetq_lane_s32(a_s32[i], l)) for the lane holding value a
QuantizeBlock_Code(a, scale_reciprocal) ==
    Int8(Vcvtaq_s32_f32(FMul(a, scale_reciprocal)))

RECURSIVE QuantizeBlock_Codes(_, _, _, _, _, _)
\* the second loop of QuantizeBlock from k on: 16 codes stored per sub-block
QuantizeBlock_Codes(APtr, ElementCount, QuantAData, scale_reciprocal, k, buf) ==
    IF k >= ElementCount THEN buf
    ELSE LET a == LoadFloatData(APtr + k, Min(ElementCount - k, 16), ZeroVectors)
             next == [o \in DOMAIN buf |->
                         IF QuantAData + k <= o /\ o < QuantAData + k + 16
                         THEN QuantizeBlock_Code(a[o - QuantAData - k], scale_reciprocal)
                         ELSE buf[o]]
         IN  AndThen(next, QuantizeBlock_Codes(APtr, ElementCount, QuantAData,
                                               scale_reciprocal, k + 16, next))

\* variant: the sub-blocks after the last element are left as they were
QuantizeBlock_NoZeros(BLen, QuantAData, k, buf) == buf

RECURSIVE QuantizeBlock_Zeros(_, _, _, _)
\* the last loop of QuantizeBlock from k on: vst1q_s8 of zeros per sub-block
QuantizeBlock_Zeros(BLen, QuantAData, k, buf) ==
    IF k >= BLen THEN buf
    ELSE QuantizeBlock_Zeros(BLen, QuantAData, k + 16,
             [o \in DOMAIN buf |->
                 IF QuantAData + k <= o /\ o < QuantAData + k + 16 THEN 0 ELSE buf[o]])

\* QuantizeBlock<16>: the scale, held by the first of its four bytes, then the
\* codes of the elements, then zeros up to BLen
QuantizeBlock(BLen, APtr, ElementCount, QuantAPtr, buf) ==
    LET scale == QuantizeBlock_Scale(APtr, ElementCount)
        scale_reciprocal == QuantizeBlock_ScaleReciprocal(scale)
        scaled == [o \in DOMAIN buf |->
                      IF o = QuantAPtr THEN scale
                      ELSE IF QuantAPtr < o /\ o < Q8BlkData(QuantAPtr) THEN 0
                      ELSE buf[o]]
        coded == QuantizeBlock_Codes(APtr, ElementCount, Q8BlkData(QuantAPtr),
                                     scale_reciprocal, 0, scaled)
    IN  QuantizeBlock_Zeros(BLen, Q8BlkData(QuantAPtr),
                            16 * MlasDivRoundup(ElementCount, 16), coded)

RECURSIVE QuantizeARow_Blks(_, _, _, _)
\* the loop of QuantizeARow_CompInt8 from k on
QuantizeARow_Blks(k, ADataBlkPtr, QuantARowBlkPtr, buf) ==
    IF k >= CountK THEN buf
    ELSE LET next == QuantizeBlock(BlkLen, ADataBlkPtr, Min(CountK - k, BlkLen),
                                   QuantARowBlkPtr, buf)
         IN  AndThen(next, QuantizeARow_Blks(k + BlkLen, ADataBlkPtr + BlkLen,
                                             QuantARowBlkPtr + Q8BlkSize(BlkLen), next))

QuantizeARow_CompInt8(buf) == QuantizeARow_Blks(0, 0, 0, buf)

-----------------------------------------------------------------------------
(* QuantizeARow_CompInt8 called on a row of A and a workspace. *)

MaxQuantBlocks == 2    \* blocks of the row quantized

QuantBlkLens == {16, 32, 48}

\* rows of floats: halves whose products with a reciprocal of 1 are ties, with
\* 127 at the start of every block; integers of both signs, the first block all
\* zeros; quarters, the largest magnitude in the last element of the row;
\* integers whose largest magnitude is not 127
QuantRows(K, BLen) ==
    { [k \in 0..(K - 1) |->
          IF k % BLen = 0 THEN Canon(127, 0)
          ELSE Canon((IF k % 2 = 0 THEN 1 ELSE -1) * (2 * (k % 5) + 1), -1)],
      [k \in 0..(K - 1) |-> IF k < BLen THEN Zero ELSE Canon(((7 * k) % 101) - 50, 0)],
      [k \in 0..(K - 1) |-> IF k = K - 1 THEN Canon(-100, 0) ELSE Canon((k % 7) - 3, -2)],
      [k \in 0..(K - 1) |-> Canon(((11 * k) % 37) - 18, 0)] }

\* contents of the workspace before the call: no int8 value and no scale
WorkspaceBefore(len) == [o \in 0..(len - 1) |-> 1000 + o]

InitQuant ==
    /\ pc = "unquantized"
    /\ ComputeType = "CompInt8"
    /\ BlkLen \in QuantBlkLens
    /\ CountM = 1
    /\ CountN = 0
    /\ CountK \in 1..(MaxQuantBlocks * BlkLen)
    /\ A \in QuantRows(CountK, BlkLen)
    /\ QuantA = WorkspaceBefore(SQ4BitGemmPerGemmWorkspaceSize(CountM, CountN, CountK, BlkLen,
                                                             ComputeType))
    /\ QuantBDataBegin = NULL /\ PackedQuantBDataBegin = NULL
    /\ pending = {} /\ touched = NULL /\ fetched = NULL
    /\ QuantBScale = NULL /\ QuantBZeroPoint = NULL
    /\ Bias = NULL /\ C = NULL /\ ldc = 0
    /\ zpUsed = NULL /\ biasReads = {} /\ calls = <<>> /\ ret = NULL /\ prev = <<>> /\ loop = NULL /\ value_indexes = NULL /\ FpData = NULL

Call_QuantizeARow_CompInt8 ==
    /\ pc = "unquantized"
    /\ QuantA' = QuantizeARow_CompInt8(QuantA)
    /\ pc' = "quantized"
    /\ UNCHANGED <<CountM, Bias, A, C, ldc, zpUsed, biasReads, calls, ret, prev, loop, FpData, value_indexes>>
    /\ UNCHANGED packVars

NextQuant == Call_QuantizeARow_CompInt8

SpecQuant == InitQuant /\ [][NextQuant]_vars

-----------------------------------------------------------------------------
(* Properties of packing. *)

BlockCountK == BlockCountKOf(CountK, BlkLen)
SubBlkLen == SubBlkLenOf(ComputeType, BlkLen)
PackedSize == SQ4BitGemmPackQuantBDataSize(CountN, CountK, BlkLen, ComputeType)
PackDone == DOMAIN touched \ pending

\* the block is a whole number of sub-blocks
WholeSubBlks == BlkLen % SubBlkLen = 0

Unpack(packed, o, CType, BLen) ==
    LET BlkDataSize == MlasQNBitBlkDataSizeInBytes(BLen)
        SubBlkDataSize == SubBlkLenOf(CType, BLen) \div 2
        base == (o \div SubBlkDataSize) * SubBlkDataSize
        c0 == 2 * (o % SubBlkDataSize)
        c1 == c0 + 1
        Code(c) == LET b == packed[base + (c % SubBlkDataSize)]
                   IN  IF c < SubBlkDataSize THEN LowNibble(b) ELSE HighNibble(b)
    IN  MakeByte(Code(c0), Code(c1))

\* C5: packing is invertible for BlkLen in {16, 32, 64, 128} and both compute
\* modes: unpacking the packed bytes with the inverse nibble permutation
\* gives back every source byte, so no two sources pack to the same bytes.
C5_UnpackPackIdentity ==
    (pc = "packed" /\ BlkLen \in {16, 32, 64, 128}) =>
        \A o \in 0..(PackedSize - 1) :
            Unpack(PackedQuantBDataBegin, o, ComputeType, BlkLen) = QuantBDataBegin[o]

C5_Witness ==
    /\ pc = "packed" /\ ComputeType = "CompInt8" /\ BlkLen = 128
    /\ CountN = 2 /\ CountK = 129

\* the bytes of the (column, block) of unit tid
OwnBlockBytes(tid) ==
    LET base == PackDataOffset(tid, BlockCountK, BlkLen)
    IN  base .. (base + MlasQNBitBlkDataSizeInBytes(BlkLen) - 1)

\* C6: in both compute modes and for every BlkLen that is a multiple of 16, the
\* unit of (column, block) reads and writes only the BlkLen/2 bytes of its own
\* block, and the packed result is the same for every order of the units.
C6_UnitsAreIndependent ==
    /\ \A tid \in PackDone :
           /\ touched[tid] \subseteq OwnBlockBytes(tid)
           /\ fetched[tid] \subseteq OwnBlockBytes(tid)
    /\ pc = "packed" =>
           \A o \in 0..(PackedSize - 1) :
               PackedQuantBDataBegin[o]
                   = PackUnitsInOrder(QuantBDataBegin,
                                      [x \in DOMAIN PackedQuantBDataBegin |-> 0],
                                      0, CountN * BlockCountK, ComputeType,
                                      BlockCountK, BlkLen)[o]

-----------------------------------------------------------------------------
(* Properties of the GEMM kernels. *)

\* the zero-point stored for block b of column n: two per byte, the even block
\* in the low nibble; 8 when there is no zero-point array
StoredZeroPoint(n, b) ==
    IF HasZeroPoint
    THEN LET byte == QuantBZeroPoint[n * MlasDivRoundup(BlockCountK, 2) + b \div 2]
         IN  IF b % 2 = 0 THEN LowNibble(byte) ELSE HighNibble(byte)
    ELSE 8

\* the dequantized value of the source code at position k of column n
Dequant(n, k) ==
    (SourceCode(QuantBDataBegin, BlockCountK, BlkLen, n, k) - StoredZeroPoint(n, k \div BlkLen))
        * QuantBScale[n * BlockCountK + k \div BlkLen]

RECURSIVE DotOver(_, _, _)
\* sum over lo <= k < hi of A[k] * Dequant(n, k)
DotOver(n, lo, hi) ==
    IF hi - lo = 1 THEN A[lo] * Dequant(n, lo)
    ELSE DotOver(n, lo, (lo + hi) \div 2) + DotOver(n, (lo + hi) \div 2, hi)

Dot(n) == DotOver(n, 0, CountK)

BiasAt(n) == IF Bias # NULL THEN Bias[n] ELSE 0

IsUnitRow(j) == A = UnitRow(CountK, j)

\* C1: after the float-mode kernel has run on the packed B without a bias,
\* C[n] is the sum over k of A[k] times the dequantized value of the source
\* code at (n, k); for the unit row e_j it is the dequantized value of the
\* source code at (n, j), for every column n and every j < K.
C1_Fp32UsesSourceCodes ==
    (pc = "called" /\ ComputeType = "CompFp32" /\ Bias = NULL) =>
        \A n \in 0..(CountN - 1) :
            /\ C[n] = Dot(n)
            /\ \A j \in 0..(CountK - 1) : IsUnitRow(j) => C[n] = Dequant(n, j)

C1_Witness ==
    /\ pc = "called" /\ ComputeType = "CompFp32" /\ Bias = NULL /\ HasZeroPoint
    /\ BlkLen = 16 /\ CountN = 5 /\ CountK = 17 /\ IsUnitRow(0)
    /\ \A n \in 0..4 : C[n] = Dequant(n, 0)
    /\ C[1] # 0

-----------------------------------------------------------------------------
(* Properties of the int8-mode kernel. *)

Rows == 0..(CountM - 1)
Cols == 0..(CountN - 1)
Blks == 0..(BlockCountK - 1)

\* the element of the buffer C that holds C[m, n]
Out(m, n) == m * ldc + n

\* scale and codes of the quantized A, k counted from the start of the row
QuantAScaleAt(m, b) == QuantA[(m * BlockCountK + b) * Q8BlkSize(BlkLen)]
QuantACodeAt(m, k) ==
    QuantA[(m * BlockCountK + k \div BlkLen) * Q8BlkSize(BlkLen) + 4 + (k % BlkLen)]

\* the source code of B at position k of column n
X(n, k) == SourceCode(QuantBDataBegin, BlockCountK, BlkLen, n, k)

\* C2: when zero-points are present, the zero-point used for block b of
\* column n is the nibble at byte n * ceil(BlockCountK / 2) + floor(b / 2) of
\* the zero-point array, the low nibble when b is even and the high nibble
\* when b is odd, whichever routine produces the element.
C2_ZeroPointNibbleByParity ==
    (pc = "called" /\ HasZeroPoint) =>
        \A x \in DOMAIN zpUsed :
            LET n == x[2]
                b == x[3]
                byte == QuantBZeroPoint[n * ((BlockCountK + 1) \div 2) + b \div 2]
            IN  zpUsed[x] = IF b % 2 = 0 THEN LowNibble(byte) ELSE HighNibble(byte)

RECURSIVE RefSumOver(_, _, _, _)
\* sum over the blocks b of scaleA[m, b] * scaleB[n, b] * sum over the
\* positions of the block of codeA * (codeB - zp[n, b]), for lo <= k < hi
RefSumOver(m, n, lo, hi) ==
    IF hi - lo = 1
    THEN LET b == lo \div BlkLen
         IN  QuantAScaleAt(m, b) * QuantBScale[n * BlockCountK + b]
                 * (QuantACodeAt(m, lo) * (X(n, lo) - StoredZeroPoint(n, b)))
    ELSE RefSumOver(m, n, lo, (lo + hi) \div 2) + RefSumOver(m, n, (lo + hi) \div 2, hi)

\* C3: every element C[m, n] of the int8-mode kernel, from the 2x2 routine or
\* from the 1x1 routine of the last odd row and column, is the reference sum
\* over the blocks of scaleA * scaleB * sum of codeA * (codeB - zp), plus
\* Bias[n] when a bias is present.
C3_TilesGiveReferenceSum ==
    (pc = "called" /\ ComputeType = "CompInt8") =>
        \A m \in Rows, n \in Cols :
            C[Out(m, n)] = Fl(RefSumOver(m, n, 0, CountK) + BiasAt(n))

RECURSIVE DequantDotOver(_, _, _, _)
\* sum over lo <= k < hi of the value of A (scale * code) times the value
\* (q - z) * s of B
DequantDotOver(m, n, lo, hi) ==
    IF hi - lo = 1
    THEN (QuantAScaleAt(m, lo \div BlkLen) * QuantACodeAt(m, lo)) * Dequant(n, lo)
    ELSE DequantDotOver(m, n, lo, (lo + hi) \div 2)
             + DequantDotOver(m, n, (lo + hi) \div 2, hi)

\* C7: the value used for a code q with block scale s and zero-point z is
\* (q - z) * s, z being the stored zero-point of the block, or 8 without a
\* zero-point array: the int8-mode result is the sum of the values of A times
\* these values of B; and the float-mode conversion of q to 16 + q, minus
\* 16 + z, is exactly q - z for all q and z in 0..15.
C7_ValueIsCodeMinusZeroPointTimesScale ==
    /\ \A q \in 0..15, z \in 0..15 :
           Fl(fp32_conversion_table[q] - Fl(fp32_conversion_offset + z)) = q - z
    /\ (pc = "called" /\ ComputeType = "CompInt8") =>
           \A m \in Rows, n \in Cols :
               C[Out(m, n)] = Fl(DequantDotOver(m, n, 0, CountK) + BiasAt(n))

\* the positions of row 0 of the quantized A that hold a code other than 0
NonZeroCodes == { k \in 0..(CountK - 1) : QuantACodeAt(0, k) # 0 }
IsUnitQuantA == Cardinality(NonZeroCodes) = 1
UnitPosition == CHOOSE k \in NonZeroCodes : TRUE

\* C8: when the only code of A other than 0 is at position k of block b, the
\* result is that code times the source code of B at position k of block b
\* minus the zero-point of the block, times the two scales of the block: the
\* code of A at k meets the source code of B at k, in the 2x2 and the 1x1
\* routines.
C8_Int8UsesSourceCodes ==
    (pc = "called" /\ ComputeType = "CompInt8" /\ Bias = NULL /\ IsUnitQuantA) =>
        LET j == UnitPosition
            b == j \div BlkLen
        IN  \A m \in Rows, n \in Cols :
                C[Out(m, n)] =
                    QuantAScaleAt(m, b) * QuantBScale[n * BlockCountK + b]
                        * (QuantACodeAt(m, j) * (X(n, j) - StoredZeroPoint(n, b)))

-----------------------------------------------------------------------------
(* Properties of a call and of two calls with the same A and B. *)

SecondCall == pc = "called" /\ prev # <<>>
FirstBias == prev[1].Bias
FirstC == prev[1].C
CBefore == IF prev = <<>> THEN PriorC(CountM * ldc) ELSE FirstC

\* term k of the sum of element (m, n): A[m, k] times the dequantized B[k, n],
\* in the int8 mode with the quantized A and the zero-point the call subtracted
KernelTerm(m, n, k) ==
    IF ComputeType = "CompFp32" THEN A[k] * Dequant(n, k)
    ELSE LET b == k \div BlkLen
         IN  QuantAScaleAt(m, b) * QuantBScale[n * BlockCountK + b]
                 * (QuantACodeAt(m, k) * (X(n, k) - zpUsed[<<m, n, b>>]))

RECURSIVE KernelSumOver(_, _, _, _)
KernelSumOver(m, n, lo, hi) ==
    IF hi - lo = 1 THEN KernelTerm(m, n, lo)
    ELSE KernelSumOver(m, n, lo, (lo + hi) \div 2) + KernelSumOver(m, n, (lo + hi) \div 2, hi)

\* sum over k of A[m, k] * Dequant(B[k, n]) of the call
KernelSum(m, n) == KernelSumOver(m, n, 0, CountK)

RECURSIVE KernelAbsSumOver(_, _, _, _)
KernelAbsSumOver(m, n, lo, hi) ==
    IF hi - lo = 1 THEN Abs(KernelTerm(m, n, lo))
    ELSE KernelAbsSumOver(m, n, lo, (lo + hi) \div 2)
             + KernelAbsSumOver(m, n, (lo + hi) \div 2, hi)

\* every partial sum of the terms of element (m, n) and of its bias, in any
\* order, is an integer below 2^24: float32 computes the sum without rounding
SumIsExact(m, n) == KernelAbsSumOver(m, n, 0, CountK) + Abs(BiasAt(n)) < TwoTo24

\* C9 as stated: the call adds the sum over k of A[m, k] * Dequant(B[k, n]),
\* plus Bias[n] when a bias is present, to the value C[m, n] had before.
C9_CallAccumulates ==
    pc = "called" =>
        \A m \in Rows, n \in Cols :
            SumIsExact(m, n) =>
                C[Out(m, n)] = Fl(CBefore[Out(m, n)] + (KernelSum(m, n) + BiasAt(n)))

\* C9 amended: the call overwrites C. After the call of either kernel C[m, n]
\* is the float32 sum over k of A[m, k] * Dequant(B[k, n]), plus Bias[n] when a
\* bias is present (that sum, when float32 computes it without rounding),
\* whatever C[m, n] held before: a second call with the same inputs, run on
\* the C the first call left, leaves C as it was; and the elements of C
\* between the rows of outputs keep their value.
C9_CallOverwrites ==
    pc = "called" =>
        /\ \A m \in Rows, n \in Cols :
               SumIsExact(m, n) => C[Out(m, n)] = KernelSum(m, n) + BiasAt(n)
        /\ \A o \in DOMAIN C : o % ldc >= CountN => C[o] = PriorC(CountM * ldc)[o]
        /\ (prev # <<>> /\ FirstBias = Bias) => C = FirstC

C9_Witness ==
    /\ SecondCall /\ ComputeType = "CompInt8" /\ Bias # NULL /\ FirstBias = Bias
    /\ CountM = 3 /\ CountN = 3 /\ BlockCountK = 2 /\ BlkLen = 32
    /\ C = FirstC
    /\ \A m \in Rows, n \in Cols :
           /\ SumIsExact(m, n)
           /\ C[Out(m, n)] # 0
           /\ C[Out(m, n)] # PriorC(CountM * ldc)[Out(m, n)]

\* C10 as stated: for the same A and B the result with a bias minus the
\* result without one is exactly Bias[n], for every row m and column n.
C10_BiasDifferenceExact ==
    (SecondCall /\ FirstBias = NULL /\ Bias # NULL) =>
        \A m \in Rows, n \in Cols : C[Out(m, n)] - FirstC[Out(m, n)] = Bias[n]

\* C10 amended: the bias is added once, after the K reduction, by one float32
\* addition: for the same A and B the result with a bias is the float32 sum of
\* the result without one and Bias[n] (the difference of the two is Bias[n]
\* only when that sum is exact), for every row m, every column n and every
\* number of blocks, in the 2x2 and the 1x1 tiles; with a null bias nothing is
\* added and no element of Bias is read, and with a bias the elements read are
\* those of the CountN columns.
C10_BiasAddedOnceRounded ==
    /\ (SecondCall /\ FirstBias = NULL /\ Bias # NULL) =>
           \A m \in Rows, n \in Cols : C[Out(m, n)] = Fl(FirstC[Out(m, n)] + Bias[n])
    /\ (SecondCall /\ FirstBias # NULL /\ Bias = NULL) =>
           \A m \in Rows, n \in Cols : FirstC[Out(m, n)] = Fl(C[Out(m, n)] + FirstBias[n])
    /\ pc = "called" => biasReads = IF Bias = NULL THEN {} ELSE Cols

C10_Witness ==
    /\ SecondCall /\ ComputeType = "CompFp32" /\ FirstBias = NULL /\ Bias # NULL
    /\ A = BigRow(CountK) /\ CountN = 5 /\ BlockCountK = 2
    /\ C[0] = Fl(FirstC[0] + Bias[0])
    /\ C[0] - FirstC[0] # Bias[0]
    /\ biasReads = 0..4

------------------------------------------------------------------------------
(* Properties of the tiling and of the dispatch. *)

\* C11: the float-mode row kernel runs the 4-column routine floor(CountN / 4)
\* times, on columns 4t..4t+3, then the 1-column routine on each of the
\* CountN mod 4 columns left, each with the SumPtr and BiasPtr of its first
\* column; every column n < CountN is in exactly one of these calls and is
\* computed with its own zero-points, data, scale and bias; no element of C at
\* or after CountN is written; CountN = 0 runs no routine.
C11_ColumnTiling ==
    (pc = "called" /\ ComputeType = "CompFp32") =>
        LET Strides == CountN \div 4
            PtrOf(n) == IF Bias = NULL THEN NullPtr ELSE n
        IN  /\ Len(calls) = Strides + (CountN % 4)
            /\ \A t \in 1..Strides :
                   /\ calls[t].NCols = 4 /\ calls[t].n = 4 * (t - 1)
                   /\ calls[t].SumPtr = 4 * (t - 1) /\ calls[t].BiasPtr = PtrOf(4 * (t - 1))
            /\ \A r \in 1..(CountN % 4) :
                   LET n == 4 * Strides + r - 1
                       c == calls[Strides + r]
                   IN  c.NCols = 1 /\ c.n = n /\ c.SumPtr = n /\ c.BiasPtr = PtrOf(n)
            /\ \A n \in 0..(CountN - 1) :
                   Cardinality({i \in DOMAIN calls :
                                   calls[i].n <= n /\ n < calls[i].n + calls[i].NCols}) = 1
            /\ \A x \in DOMAIN zpUsed : zpUsed[x] = StoredZeroPoint(x[2], x[3])
            /\ \A n \in 0..(CountN - 1) :
                   SumIsExact(0, n) => C[n] = Dot(n) + BiasAt(n)
            /\ \A o \in DOMAIN C : o >= CountN => C[o] = PriorC(CountN + CGuardLen)[o]

\* N = 5 with a bias and zero-points: column 4 is computed by the 1-column routine
C11_Witness ==
    /\ pc = "called" /\ ComputeType = "CompFp32" /\ CountN = 5 /\ Bias # NULL /\ HasZeroPoint
    /\ BlockCountK = 2
    /\ Len(calls) = 2 /\ calls[2].NCols = 1 /\ calls[2].n = 4
    /\ SumIsExact(0, 4) /\ C[4] = Dot(4) + Bias[4] /\ Dot(4) # 0
    /\ C[4] # PriorC(CountN + CGuardLen)[4] /\ C[5] = PriorC(CountN + CGuardLen)[5]

-----------------------------------------------------------------------------
(* Properties of the quantization of a row of A. *)

QuantBlocks == 0..(BlockCountKOf(CountK, BlkLen) - 1)

\* the elements of A in block b
RealElements(b) == (b * BlkLen)..(Min(CountK, (b + 1) * BlkLen) - 1)

\* the largest magnitude among the elements of block b
AmaxOfBlock(b) ==
    CHOOSE x \in {FAbs(A[k]) : k \in RealElements(b)} :
        \A k \in RealElements(b) : ~FLess(x, FAbs(A[k]))

StoredScale(b) == QuantA[b * Q8BlkSize(BlkLen)]
StoredCode(b, i) == QuantA[Q8BlkData(b * Q8BlkSize(BlkLen)) + i]

\* scale is a float within half a unit of its last place of amax / 127
IsAmaxOver127(scale, amax) ==
    IF amax = Zero THEN scale = Zero
    ELSE /\ scale # Zero /\ scale # NotFinite /\ scale[1] > 0
         /\ LET ns == Norm24(scale[1], scale[2])
            IN  Abs(127 * ns[1] - amax[1] * 2^(amax[2] - ns[2])) <= 63

\* code is within one of 127 * a / amax
IsWithinOne(code, a, amax) ==
    LET e == Min(a[2], amax[2])
        a_e == a[1] * 2^(a[2] - e)
        amax_e == amax[1] * 2^(amax[2] - e)
    IN  Abs(code * amax_e - 127 * a_e) < amax_e

\* C12: the scale stored for a block is amax / 127 in float32, amax the
\* largest magnitude among the block's real elements; its reciprocal is taken
\* only when the scale is not zero and is 0 otherwise; the codes are the
\* elements times the reciprocal, rounded: within one of 127 * a / amax, and
\* 127 in magnitude for an element of magnitude amax; a block of zeros gets
\* scale 0 and codes 0 and nothing is divided by zero.
C12_ScaleIsAmaxOver127 ==
    pc = "quantized" =>
        \A b \in QuantBlocks :
            LET amax == AmaxOfBlock(b)
                scale == StoredScale(b)
                scale_reciprocal == QuantizeBlock_ScaleReciprocal(scale)
            IN  /\ IsAmaxOver127(scale, amax)
                /\ scale_reciprocal # NotFinite
                /\ (scale = Zero) = (scale_reciprocal = Zero)
                /\ scale # Zero => scale_reciprocal = FDiv(One, scale)
                /\ \A k \in RealElements(b) :
                       LET code == StoredCode(b, k - b * BlkLen)
                       IN  /\ code = QuantizeBlock_Code(A[k], scale_reciprocal)
                           /\ amax = Zero => code = 0
                           /\ amax # Zero => IsWithinOne(code, A[k], amax)
                           /\ (amax # Zero /\ FAbs(A[k]) = amax) =>
                                  code = (IF A[k][1] < 0 THEN -127 ELSE 127)

\* a row whose first block is all zeros and whose second block has a scale
\* that is not exact and an element quantized to -127 or 127
C12_Witness ==
    /\ pc = "quantized"
    /\ BlockCountKOf(CountK, BlkLen) = 2
    /\ StoredScale(0) = Zero
    /\ \A i \in 0..(BlkLen - 1) : StoredCode(0, i) = 0
    /\ StoredScale(1)[1] > 1048576
    /\ \E k \in RealElements(1) : Abs(StoredCode(1, k - BlkLen)) = 127
    /\ \E k \in RealElements(1) : StoredCode(1, k - BlkLen) \notin {-127, 0, 127}

\* C13: after QuantizeARow_CompInt8 every one of the BlkLen codes of every one
\* of the ceil(CountK / BlkLen) blocks has been written, and the codes at and
\* after the true length of the row are 0.
C13_PaddingIsZero ==
    pc = "quantized" =>
        /\ DOMAIN QuantA = 0..(BlockCountKOf(CountK, BlkLen) * Q8BlkSize(BlkLen) - 1)
        /\ \A b \in QuantBlocks : \A i \in 0..(BlkLen - 1) :
               /\ StoredCode(b, i) \in -128..127
               /\ b * BlkLen + i >= CountK => StoredCode(b, i) = 0

\* a row of 48 + 5 elements in blocks of 48: the last block has 5 elements,
\* 11 zeros in their sub-block and two sub-blocks of zeros
C13_Witness ==
    /\ pc = "quantized"
    /\ BlkLen = 48 /\ CountK = 53
    /\ StoredCode(1, 4) # 0
    /\ \A i \in 5..47 : StoredCode(1, i) = 0
    /\ WorkspaceBefore(2 * Q8BlkSize(48))[Q8BlkData(Q8BlkSize(48)) + 47] \notin -128..127

\* C14: a code is the integer nearest to the float32 product of the element
\* and the reciprocal of the scale, and when the product is half way between
\* two integers, the one of larger magnitude.
C14_RoundsHalfAwayFromZero ==
    pc = "quantized" =>
        \A b \in QuantBlocks : \A k \in RealElements(b) :
            LET x == FMul(A[k], QuantizeBlock_ScaleReciprocal(StoredScale(b)))
                code == StoredCode(b, k - b * BlkLen)
            IN  IF x[2] >= 0 THEN code = x[1] * 2^x[2]
                ELSE IF -x[2] > 25 THEN code = 0
                ELSE LET d == 2^(-x[2])
                     IN  /\ 2 * Abs(code * d - x[1]) <= d
                         /\ 2 * Abs(code * d - x[1]) = d => Abs(code) * d > Abs(x[1])

\* the products 2.5, -2.5 and 0.5 are quantized to 3, -3 and 1
C14_Witness ==
    /\ pc = "quantized"
    /\ StoredScale(0) = One
    /\ \E k \in RealElements(0) : A[k] = <<5, -1>> /\ StoredCode(0, k) = 3
    /\ \E k \in RealElements(0) : A[k] = <<-5, -1>> /\ StoredCode(0, k) = -3
    /\ \E k \in RealElements(0) : A[k] = <<1, -1>> /\ StoredCode(0, k) = 1

-----------------------------------------------------------------------------
(* Properties of the sizes. *)

\* the number of blocks of BLen elements that hold K elements
CeilDiv(K, BLen) == CHOOSE c \in 0..K : c * BLen >= K /\ (c = 0 \/ (c - 1) * BLen < K)

\* C15: the packed size is N * ceil(K / BlkLen) * (BlkLen * 4 / 8) bytes, the
\* same in both compute modes; the destination of the packing has that many
\* bytes before its guard bytes.
C15_PackedSize ==
    /\ \A CType \in ComputeTypes :
           SQ4BitGemmPackQuantBDataSize(CountN, CountK, BlkLen, CType)
               = CountN * CeilDiv(CountK, BlkLen) * ((BlkLen * 4) \div 8)
    /\ DOMAIN PackedQuantBDataBegin
           = 0..(CountN * CeilDiv(CountK, BlkLen) * ((BlkLen * 4) \div 8) + GuardLen - 1)

\* two columns of two blocks, the second block with one element, packed
C15_Witness ==
    /\ pc = "packed" /\ ComputeType = "CompInt8"
    /\ CountN = 2 /\ BlkLen = 32 /\ CountK = 33
    /\ SQ4BitGemmPackQuantBDataSize(CountN, CountK, BlkLen, ComputeType) = 64
    /\ \A tid \in DOMAIN touched : touched[tid] # {}

\* C16: the workspace of a call has M * ceil(K / BlkLen) * (4 + BlkLen) bytes
\* in int8 mode and 0 bytes in float mode, whatever N; its alignment is that of
\* a quantized block in int8 mode and 1 in float mode; the quantized A the
\* int8 kernel is given fills a workspace of that size.
C16_WorkspaceSize ==
    /\ \A N \in 0..(MaxN + 1) :
           SQ4BitGemmPerGemmWorkspaceSize(CountM, N, CountK, BlkLen, ComputeType)
               = IF ComputeType = "CompInt8"
                 THEN CountM * CeilDiv(CountK, BlkLen) * (4 + BlkLen)
                 ELSE 0
    /\ SQ4BitGemmPerGemmWorkspaceAlignment(BlkLen, ComputeType)
           = IF ComputeType = "CompInt8" THEN Q8BlkAlignment ELSE 1
    /\ pc \in {"ready", "called"} =>
           DOMAIN QuantA = 0..(SQ4BitGemmPerGemmWorkspaceSize(CountM, CountN, CountK, BlkLen,
                                                              ComputeType) - 1)

\* three rows of two blocks of 32: 216 bytes, read by the int8 kernel
C16_Witness ==
    /\ pc = "called" /\ ComputeType = "CompInt8"
    /\ CountM = 3 /\ BlkLen = 32 /\ CountK = 64
    /\ SQ4BitGemmPerGemmWorkspaceSize(CountM, CountN, CountK, BlkLen, ComputeType) = 216
    /\ DOMAIN QuantA = 0..215
    /\ ret = 3

-----------------------------------------------------------------------------
(* Properties of the int8 entry point and of the writes of a call. *)

Int8Called == pc = "called" /\ ComputeType = "CompInt8"

\* C17: the int8 entry point selects one variant for the whole call: every
\* routine it runs is specialized for zero-points exactly when the zero-point
\* pointer is not null, and runs in the BlkLen-16 kernel exactly when BlkLen is
\* 16, in the BlkLen-32 kernel exactly when BlkLen is 32 and in the looped
\* kernel for every other BlkLen.
C17_VariantSelectedOncePerCall ==
    Int8Called =>
        /\ calls # <<>>
        /\ \A i \in DOMAIN calls :
               /\ calls[i].kernel = calls[1].kernel
               /\ calls[i].HasZeroPoint = calls[1].HasZeroPoint
               /\ calls[i].HasZeroPoint = (QuantBZeroPoint # NULL)
               /\ (calls[i].kernel = "SQ4BitGemmKernel_CompInt8_BlkLen16") = (BlkLen = 16)
               /\ (calls[i].kernel = "SQ4BitGemmKernel_CompInt8_BlkLen32") = (BlkLen = 32)
               /\ (calls[i].kernel = "SQ4BitGemmKernel_CompInt8_BlkLenGreaterThan32")
                      = (BlkLen \notin {16, 32})

\* a call with zero-points and blocks of 32, of six routines
C17_Witness ==
    /\ Int8Called /\ BlkLen = 32 /\ QuantBZeroPoint # NULL
    /\ CountM = 3 /\ CountN = 3 /\ Len(calls) = 6
    /\ calls[6].kernel = "SQ4BitGemmKernel_CompInt8_BlkLen32" /\ calls[6].HasZeroPoint

\* the routines of the kernel of each class of BlkLen: the 2x2 and the 1x1
VariantOfClass(class) ==
    IF class = "16"
    THEN <<"SQ4BitGemmKernel_CompInt8_BlkLen16",
           "SQ4BitGemm_CompInt8_Compute2x2_BlkLen16",
           "SQ4BitGemm_CompInt8_Compute1x1_BlkLen16">>
    ELSE IF class = "32"
    THEN <<"SQ4BitGemmKernel_CompInt8_BlkLen32",
           "SQ4BitGemm_CompInt8_Compute2x2_BlkLenGreaterThan16",
           "SQ4BitGemm_CompInt8_Compute1x1_BlkLen32">>
    ELSE <<"SQ4BitGemmKernel_CompInt8_BlkLenGreaterThan32",
           "SQ4BitGemm_CompInt8_Compute2x2_BlkLenGreaterThan16",
           "SQ4BitGemm_CompInt8_Compute1x1_BlkLenGreaterThan32">>

\* the call ran the variant of the class of its BlkLen, first the class of BLen
RanVariantOfClassesFrom(first) ==
    LET class == IF BlkLen = first THEN "16" ELSE IF BlkLen = 32 THEN "32" ELSE "other"
        v == VariantOfClass(class)
    IN  \A i \in DOMAIN calls :
            /\ calls[i].kernel = v[1]
            /\ calls[i].routine \in {v[2], v[3]}
            /\ (calls[i].routine = v[2])
                   = (calls[i].m < 2 * (CountM \div 2) /\ calls[i].n < 2 * (CountN \div 2))

\* C18 as stated: the dispatch classifies BlkLen into the cases 15, 32 and
\* other, and runs the one variant of the case.
C18_ClassesAre15_32_Other == Int8Called => RanVariantOfClassesFrom(15)

\* C18 amended: the dispatch classifies BlkLen into the cases 16, 32 and
\* other, and runs the one kernel variant of the case, with its 2x2 routine
\* on the tiles of two rows and two columns and its 1x1 routine on the other
\* elements, specialized by the presence of zero-points.
C18_ClassesAre16_32_Other ==
    Int8Called =>
        /\ RanVariantOfClassesFrom(16)
        /\ \A i \in DOMAIN calls : calls[i].HasZeroPoint = HasZeroPoint

\* a call with blocks of 16 that ran the 2x2 and the 1x1 routine of the
\* BlkLen-16 kernel
C18_Witness ==
    /\ Int8Called /\ BlkLen = 16 /\ CountM = 3 /\ CountN = 3
    /\ calls[1].kernel = "SQ4BitGemmKernel_CompInt8_BlkLen16"
    /\ calls[1].routine = "SQ4BitGemm_CompInt8_Compute2x2_BlkLen16"
    /\ calls[2].routine = "SQ4BitGemm_CompInt8_Compute1x1_BlkLen16"

\* the elements of C a routine call stores
StoredBy(c) ==
    IF c.routine = Routine_Compute2x2
    THEN {c.SumPtr, c.SumPtr + 1, c.SumPtr + ldc, c.SumPtr + ldc + 1}
    ELSE {c.SumPtr}

\* C19: SQ4BitGemmKernel_CompInt8 returns CountM, and on return every element
\* C[m * ldc + n], m < CountM, n < CountN, has been stored by exactly one of
\* the routines it ran, for row m and column n; the last of them, in a 2x2
\* tile, a last column or a last row, holds the sum of the call plus the bias.
C19_ReturnsCountM ==
    Int8Called =>
        /\ ret = CountM
        /\ \A m \in Rows, n \in Cols :
               /\ Cardinality({i \in DOMAIN calls : Out(m, n) \in StoredBy(calls[i])}) = 1
               /\ \A i \in DOMAIN calls :
                      Out(m, n) \in StoredBy(calls[i]) =>
                          /\ calls[i].SumPtr = Out(calls[i].m, calls[i].n)
                          /\ m - calls[i].m \in {0, 1} /\ n - calls[i].n \in {0, 1}
        /\ SumIsExact(CountM - 1, CountN - 1) =>
               C[Out(CountM - 1, CountN - 1)]
                   = KernelSum(CountM - 1, CountN - 1) + BiasAt(CountN - 1)

\* three rows and three columns: a 2x2 tile, a last column and a last row
C19_Witness ==
    /\ Int8Called /\ CountM = 3 /\ CountN = 3 /\ ret = 3 /\ Len(calls) = 6
    /\ SumIsExact(2, 2)
    /\ C[Out(2, 2)] = KernelSum(2, 2) + BiasAt(2)
    /\ C[Out(2, 2)] # PriorC(CountM * ldc)[Out(2, 2)]

-----------------------------------------------------------------------------
(* Properties of rows and blocks of zeros. *)

\* row m of A is all zeros (in int8 mode: quantized to scales 0 and codes 0)
IsZeroRowOfA(m) ==
    IF ComputeType = "CompFp32" THEN \A k \in DOMAIN A : A[k] = 0
    ELSE \A o \in (m * StrideQuantA)..((m + 1) * StrideQuantA - 1) : QuantA[o] = 0

\* every block of column n of B dequantizes to zeros: its codes are its
\* zero-point, or its scale is 0
IsZeroColumnOfB(n) ==
    \A b \in 0..(BlockCountK - 1) :
        \/ QuantBScale[n * BlockCountK + b] = 0
        \/ \A k \in (b * BlkLen)..((b + 1) * BlkLen - 1) :
               SourceCode(QuantBDataBegin, BlockCountK, BlkLen, n, k) = StoredZeroPoint(n, b)

\* C21: a row of zeros of A, and blocks of B that dequantize to zeros, add
\* exactly zero: C[m, n] is Bias[n], or 0 without a bias.
C21_ZerosContributeZero ==
    pc = "called" =>
        \A m \in Rows, n \in Cols :
            (IsZeroRowOfA(m) \/ IsZeroColumnOfB(n)) => C[Out(m, n)] = BiasAt(n)

\* C21 for the rows of zeros of A only
C21_ZeroRowContributesZero ==
    pc = "called" =>
        \A m \in Rows, n \in Cols : IsZeroRowOfA(m) => C[Out(m, n)] = BiasAt(n)

\* C21 for the blocks of B of scale 0 only
C21_ZeroScaleContributesZero ==
    pc = "called" =>
        \A m \in Rows, n \in Cols :
            (\A b \in 0..(BlockCountK - 1) : QuantBScale[n * BlockCountK + b] = 0)
                => C[Out(m, n)] = BiasAt(n)

\* C21 but for the elements the 1x1 routine for BlkLen > 32 computes with
\* zero-points and more than one block
C21_ZerosContributeZero_But1x1 ==
    pc = "called" =>
        \A m \in Rows, n \in Cols :
            (/\ IsZeroRowOfA(m) \/ IsZeroColumnOfB(n)
             /\ ~(/\ ComputeType = "CompInt8" /\ BlkLen > 32 /\ HasZeroPoint
                  /\ BlockCountK > 1 /\ ~InTile2x2(m, n)))
                => C[Out(m, n)] = BiasAt(n)


-----------------------------------------------------------------------------
(* The loops of a call, one evaluation of a loop condition at a step: loop    *)
(* holds the counters of the call in progress and, in at, the condition it    *)
(* is about to evaluate; at = "return" once the call has returned.            *)

\* MlasTrySimpleParallel runs the unit of every tid < Iterations; the units are
\* taken here in increasing order of tid
PackLoops_Enter == [call |-> "SQ4BitGemmPackQuantBData", at |-> "tid", tid |-> 0, kk |-> 0,
                    byte_pair_idx |-> 0]

\* variant: the lambda entered again for the same tid
PackLoops_Step_SameTid(l) ==
    LET SubBlkBytePairCount == SubBlkLenOf(ComputeType, BlkLen) \div 4
        Iterations == CountN * BlockCountKOf(CountK, BlkLen)
    IN  CASE l.at = "tid" ->
                IF l.tid < Iterations THEN [l EXCEPT !.at = "kk", !.kk = 0]
                ELSE [l EXCEPT !.at = "return"]
          [] l.at = "kk" ->
                IF l.kk < BlkLen THEN [l EXCEPT !.at = "byte_pair_idx", !.byte_pair_idx = 0]
                ELSE [l EXCEPT !.at = "tid"]
          [] l.at = "byte_pair_idx" ->
                IF l.byte_pair_idx < SubBlkBytePairCount
                THEN [l EXCEPT !.byte_pair_idx = @ + 1]
                ELSE [l EXCEPT !.at = "kk", !.kk = @ + SubBlkLenOf(ComputeType, BlkLen)]

\* the loops of the lambda of SQ4BitGemmPackQuantBData, a condition at a time
PackLoops_Step(l) ==
    LET SubBlkBytePairCount == SubBlkLenOf(ComputeType, BlkLen) \div 4
        Iterations == CountN * BlockCountKOf(CountK, BlkLen)
    IN  CASE l.at = "tid" ->
                IF l.tid < Iterations THEN [l EXCEPT !.at = "kk", !.kk = 0]
                ELSE [l EXCEPT !.at = "return"]
          [] l.at = "kk" ->
                IF l.kk < BlkLen THEN [l EXCEPT !.at = "byte_pair_idx", !.byte_pair_idx = 0]
                ELSE [l EXCEPT !.at = "tid", !.tid = @ + 1]
          [] l.at = "byte_pair_idx" ->
                IF l.byte_pair_idx < SubBlkBytePairCount
                THEN [l EXCEPT !.byte_pair_idx = @ + 1]
                ELSE [l EXCEPT !.at = "kk", !.kk = @ + SubBlkLenOf(ComputeType, BlkLen)]

\* where the caller of QuantizeARow_CompInt8 has the quantized row m start in
\* the workspace
QuantARowOfCaller(m) == m * BlockCountKOf(CountK, BlkLen) * Q8BlkSize(BlkLen)

\* QuantizeARow_CompInt8 with QuantizeBlock<16> and LoadFloatData inlined, for
\* row m: k is the counter of the row's loop, blk_k the k of QuantizeBlock,
\* stored the number of bytes stored so far
QuantizeLoops_Enter(m) ==
    [call |-> "QuantizeARow_CompInt8", at |-> "k", k |-> 0, blk_k |-> 0,
     ElementCount |-> 0, count |-> 0, interval |-> 0, from |-> "scan",
     QuantA |-> QuantARowOfCaller(m), QuantABlkPtr |-> QuantARowOfCaller(m),
     stored |-> 0, stores |-> {}]

\* the counters and the pointers after the step at l
QuantizeLoops_Control(l) ==
    CASE l.at = "k" ->
            IF l.k < CountK
            THEN [l EXCEPT !.at = "scan", !.blk_k = 0,
                           !.ElementCount = Min(CountK - l.k, BlkLen)]
            ELSE [l EXCEPT !.at = "return"]
      [] l.at = "scan" ->
            IF l.blk_k < l.ElementCount
            THEN [l EXCEPT !.at = "count", !.from = "scan",
                           !.count = Min(l.ElementCount - l.blk_k, 16)]
            ELSE [l EXCEPT !.at = "quantize", !.blk_k = 0]
      [] l.at = "count" ->
            IF l.count > 3 THEN [l EXCEPT !.count = @ - 4]
            ELSE IF l.from = "scan" THEN [l EXCEPT !.at = "interval", !.interval = (16 \div 4) \div 2]
            ELSE [l EXCEPT !.at = "quantize", !.blk_k = @ + 16]
      [] l.at = "interval" ->
            IF l.interval > 0 THEN [l EXCEPT !.interval = @ \div 2]
            ELSE [l EXCEPT !.at = "scan", !.blk_k = @ + 16]
      [] l.at = "quantize" ->
            IF l.blk_k < l.ElementCount
            THEN [l EXCEPT !.at = "count", !.from = "quantize",
                           !.count = Min(l.ElementCount - l.blk_k, 16)]
            ELSE [l EXCEPT !.at = "zero"]
      [] l.at = "zero" ->
            IF l.blk_k < BlkLen THEN [l EXCEPT !.blk_k = @ + 16]
            ELSE [l EXCEPT !.at = "k", !.k = @ + BlkLen,
                           !.QuantABlkPtr = @ + Q8BlkSize(BlkLen)]

\* what the step at l stores to the workspace: pairs of an offset and a length.
\* The scale is stored after the first loop, 16 codes by an iteration of the
\* second loop once its elements are loaded, 16 zeros by one of the last loop.
QuantizeLoops_Stores(l) ==
    CASE l.at = "scan" /\ ~(l.blk_k < l.ElementCount) -> {<<l.QuantABlkPtr, 4>>}
      [] l.at = "count" /\ ~(l.count > 3) /\ l.from = "quantize" ->
            {<<Q8BlkData(l.QuantABlkPtr) + l.blk_k, 16>>}
      [] l.at = "zero" /\ l.blk_k < BlkLen -> {<<Q8BlkData(l.QuantABlkPtr) + l.blk_k, 16>>}
      [] OTHER -> {}

QuantizeLoops_Step(l) ==
    LET stores == QuantizeLoops_Stores(l)
    IN  [QuantizeLoops_Control(l) EXCEPT
            !.stores = stores,
            !.stored = @ + (IF stores = {} THEN 0 ELSE (CHOOSE st \in stores : TRUE)[2])]

\* SQ4BitGemmM1Kernel_CompFp32 with ComputeDotProducts_BlkBitWidth4_CompFp32
\* and LoadFloatData inlined; nblk is the signed int64_t of the code
Fp32Loops_Enter == [call |-> "SQ4BitGemmM1Kernel_CompFp32", at |-> "nblk", nblk |-> CountN - 4,
                    n |-> 0, NCols |-> 4, k |-> 0, k_idx_in_blk |-> 0, k_blk_len |-> 0,
                    count |-> 0]

Fp32Loops_Step(l) ==
    CASE l.at = "nblk" ->
            IF l.nblk >= 0 THEN [l EXCEPT !.at = "k", !.NCols = 4, !.k = 0]
            ELSE [l EXCEPT !.at = "n", !.nblk = @ + 4, !.n = 0]
      [] l.at = "n" ->
            IF l.n < l.nblk THEN [l EXCEPT !.at = "k", !.NCols = 1, !.k = 0]
            ELSE [l EXCEPT !.at = "return"]
      [] l.at = "k" ->
            IF l.k < CountK
            THEN [l EXCEPT !.at = "k_idx_in_blk", !.k_idx_in_blk = 0,
                           !.k_blk_len = Min(CountK - l.k, BlkLen)]
            ELSE IF l.NCols = 4 THEN [l EXCEPT !.at = "nblk", !.nblk = @ - 4]
            ELSE [l EXCEPT !.at = "n", !.n = @ + 1]
      [] l.at = "k_idx_in_blk" ->
            IF l.k_idx_in_blk < l.k_blk_len
            THEN [l EXCEPT !.at = "count", !.count = Min(l.k_blk_len - l.k_idx_in_blk, 16)]
            ELSE [l EXCEPT !.at = "k", !.k = @ + BlkLen]
      [] l.at = "count" ->
            IF l.count > 3 THEN [l EXCEPT !.count = @ - 4]
            ELSE [l EXCEPT !.at = "k_idx_in_blk", !.k_idx_in_blk = @ + 16]

\* what the sub-block loop of a routine adds to sub_blk_idx
SubBlkIdxStep(routine) ==
    IF routine = "SQ4BitGemm_CompInt8_Compute1x1_BlkLenGreaterThan32" THEN 2 ELSE 1

\* variant: the 1x1 routine loads 32 codes of A at an iteration, as the 2x2 one
SubBlkCodes_32(routine) == 32

\* the codes of A an iteration of the sub-block loop of a routine loads, from
\* QuantADataPtr on; it loads half as many bytes of B from QuantBDataPtr on
SubBlkCodes(routine) ==
    IF routine = "SQ4BitGemm_CompInt8_Compute1x1_BlkLenGreaterThan32" THEN 16 * 4 ELSE 32

\* the int8 kernel of the class of BlkLen with its routines inlined; after is
\* what the kernel does once the routine it called returns. The routines with
\* a sub-block loop keep QuantAPtr, QuantADataPtr and QuantBDataPtr, here as
\* offsets from their QuantARowPtr and QuantBDataColPtr.
Int8Loops_Enter == [call |-> Kernel_DispatchOnBlkLen, at |-> "m_remaining > 1",
                    m_remaining |-> CountM, n_remaining |-> 0, routine |-> "", after |-> "",
                    k_blk_idx |-> 0, sub_blk_idx |-> 0, k_blks_remaining |-> 0,
                    QuantARowPtr |-> 0, QuantAPtr |-> 0, QuantADataPtr |-> 0,
                    QuantBDataPtr |-> 0, loads |-> {}]

\* the kernel calls a routine for the row, or the two rows, at QuantARow
Int8Loops_Call(l, routine, after, QuantARow) ==
    IF routine \in {"SQ4BitGemm_CompInt8_Compute1x1_BlkLen16",
                    "SQ4BitGemm_CompInt8_Compute1x1_BlkLen32"}
    THEN [l EXCEPT !.at = "k_blks_remaining > 1", !.routine = routine, !.after = after,
                   !.k_blks_remaining = BlockCountKOf(CountK, BlkLen),
                   !.QuantAPtr = QuantARow]
    ELSE [l EXCEPT !.at = "k_blk_idx < BlockCountK", !.routine = routine, !.after = after,
                   !.k_blk_idx = 0, !.QuantAPtr = QuantARow, !.QuantADataPtr = 0,
                   !.QuantBDataPtr = 0]

Int8Loops_Return(l) ==
    CASE l.after = "n_remaining -= 2" ->
            [l EXCEPT !.at = "n_remaining > 1", !.n_remaining = @ - 2]
      [] l.after = "second row" ->
            Int8Loops_Call(l, Routine_Compute1x1, "m_remaining -= 2",
                           l.QuantARowPtr + StrideQuantA)
      [] l.after = "m_remaining -= 2" ->
            [l EXCEPT !.at = "m_remaining > 1", !.m_remaining = @ - 2,
                      !.QuantARowPtr = @ + 2 * StrideQuantA]
      [] l.after = "n_remaining -= 1" ->
            [l EXCEPT !.at = "n_remaining > 0", !.n_remaining = @ - 1]

\* the counters and the pointers after the step at l
Int8Loops_Control(l) ==
    CASE l.at = "m_remaining > 1" ->
            IF l.m_remaining > 1 THEN [l EXCEPT !.at = "n_remaining > 1", !.n_remaining = CountN]
            ELSE IF l.m_remaining > 0
            THEN [l EXCEPT !.at = "n_remaining > 0", !.n_remaining = CountN]
            ELSE [l EXCEPT !.at = "return"]
      [] l.at = "n_remaining > 1" ->
            IF l.n_remaining > 1
            THEN Int8Loops_Call(l, Routine_Compute2x2, "n_remaining -= 2", l.QuantARowPtr)
            ELSE IF l.n_remaining > 0
            THEN Int8Loops_Call(l, Routine_Compute1x1, "second row", l.QuantARowPtr)
            ELSE [l EXCEPT !.at = "m_remaining > 1", !.m_remaining = @ - 2,
                           !.QuantARowPtr = @ + 2 * StrideQuantA]
      [] l.at = "n_remaining > 0" ->
            IF l.n_remaining > 0
            THEN Int8Loops_Call(l, Routine_Compute1x1, "n_remaining -= 1", l.QuantARowPtr)
            ELSE [l EXCEPT !.at = "return"]
      [] l.at = "k_blk_idx < BlockCountK" ->
            IF l.k_blk_idx < BlockCountKOf(CountK, BlkLen)
            THEN IF l.routine = "SQ4BitGemm_CompInt8_Compute2x2_BlkLen16"
                 THEN [l EXCEPT !.k_blk_idx = @ + 1, !.QuantAPtr = @ + Q8BlkSize(BlkLen)]
                 ELSE [l EXCEPT !.at = "sub_blk_idx < SubBlksPerBlk", !.sub_blk_idx = 0,
                                !.QuantADataPtr = Q8BlkData(l.QuantAPtr)]
            ELSE Int8Loops_Return(l)
      [] l.at = "sub_blk_idx < SubBlksPerBlk" ->
            IF l.sub_blk_idx < BlkLen \div 32
            THEN [l EXCEPT !.sub_blk_idx = @ + SubBlkIdxStep(l.routine),
                           !.QuantADataPtr = @ + SubBlkCodes(l.routine),
                           !.QuantBDataPtr = @ + SubBlkCodes(l.routine) \div 2]
            ELSE [l EXCEPT !.at = "k_blk_idx < BlockCountK", !.k_blk_idx = @ + 1,
                           !.QuantAPtr = @ + Q8BlkSize(BlkLen)]
      [] l.at = "k_blks_remaining > 1" ->
            IF l.k_blks_remaining > 1
            THEN [l EXCEPT !.k_blks_remaining = @ - 2, !.QuantAPtr = @ + Q8BlkSize(BlkLen) * 2]
            ELSE [l EXCEPT !.at = "k_blks_remaining > 0"]
      [] l.at = "k_blks_remaining > 0" -> Int8Loops_Return(l)

\* the scale of the block at BlkPtr, a float, and n of its codes from the i-th on
LoadOfScale(BlkPtr) == <<"scale", BlkPtr, 4>>
LoadOfCodes(BlkPtr, i, n) == <<"codes", Q8BlkData(BlkPtr) + i, n>>

\* what the step at l loads from QuantA: what, at which offset, how many bytes
Int8Loops_Loads(l) ==
    LET RowPtrs == IF l.routine \in {"SQ4BitGemm_CompInt8_Compute2x2_BlkLen16",
                                  "SQ4BitGemm_CompInt8_Compute2x2_BlkLenGreaterThan16"}
                THEN {0, StrideQuantA} ELSE {0}
    IN  CASE l.at = "k_blk_idx < BlockCountK" /\ l.k_blk_idx < BlockCountKOf(CountK, BlkLen) ->
                { LoadOfScale(l.QuantAPtr + row) : row \in RowPtrs }
                \cup IF l.routine = "SQ4BitGemm_CompInt8_Compute2x2_BlkLen16"
                     THEN { LoadOfCodes(l.QuantAPtr + row, 0, 16) : row \in RowPtrs }
                     ELSE {}
          [] l.at = "sub_blk_idx < SubBlksPerBlk" /\ l.sub_blk_idx < BlkLen \div 32 ->
                { <<"codes", l.QuantADataPtr + row, SubBlkCodes(l.routine)>> : row \in RowPtrs }
          [] l.at = "k_blks_remaining > 1" /\ l.k_blks_remaining > 1 ->
                { LoadOfScale(l.QuantAPtr + blk) : blk \in {0, Q8BlkSize(BlkLen)} }
                \cup { LoadOfCodes(l.QuantAPtr + blk, 0, BlkLen) : blk \in {0, Q8BlkSize(BlkLen)} }
          [] l.at = "k_blks_remaining > 0" /\ l.k_blks_remaining > 0 ->
                {LoadOfScale(l.QuantAPtr), LoadOfCodes(l.QuantAPtr, 0, BlkLen)}
          [] OTHER -> {}

Int8Loops_Step(l) == [Int8Loops_Control(l) EXCEPT !.loads = Int8Loops_Loads(l)]

\* calls of every routine, at their first loop condition
LoopBlkLens == {16, 32, 48, 64, 96, 128}

InitLoops ==
    /\ pc = "running"
    /\ ComputeType \in ComputeTypes
    /\ BlkLen \in LoopBlkLens
    /\ CountN \in 0..MaxN
    /\ CountK \in {b * BlkLen - short : <<b, short>> \in (1..(MaxBlockCountK + 1)) \X {0, 5}}
    /\ \/ CountM = 0 /\ loop = PackLoops_Enter
       \/ /\ ComputeType = "CompInt8"
          /\ \/ CountN = 0 /\ CountM \in 1..MaxM /\ \E m \in 0..(CountM - 1) : loop = QuantizeLoops_Enter(m)
             \/ CountM \in 0..MaxM /\ loop = Int8Loops_Enter
       \/ /\ ComputeType = "CompFp32"
          /\ CountM = 1 /\ loop = Fp32Loops_Enter
    /\ QuantBDataBegin = NULL /\ PackedQuantBDataBegin = NULL
    /\ pending = {} /\ touched = {} /\ fetched = {}
    /\ QuantBScale = NULL /\ QuantBZeroPoint = NULL /\ Bias = NULL
    /\ A = NULL /\ QuantA = NULL /\ C = NULL /\ ldc = 0 /\ zpUsed = NULL
    /\ biasReads = {} /\ calls = <<>> /\ ret = NULL /\ prev = <<>> /\ FpData = NULL
    /\ value_indexes = NULL

\* the call in progress evaluates its next loop condition
StepOf(call_loop) ==
    /\ pc = "running"
    /\ loop' = call_loop
    /\ pc' = IF call_loop.at = "return" THEN "returned" ELSE "running"
    /\ UNCHANGED <<ComputeType, BlkLen, CountN, CountK, QuantBDataBegin,
                   PackedQuantBDataBegin, pending, touched, fetched>>
    /\ UNCHANGED <<CountM, QuantBScale, QuantBZeroPoint, Bias, A, QuantA, C, ldc, zpUsed,
                   biasReads, calls, ret, prev, FpData, value_indexes>>

Step_Pack == loop.call = PackLoops_Enter.call /\ StepOf(PackLoops_Step(loop))

Step_QuantizeARow == loop.call = QuantizeLoops_Enter(0).call /\ StepOf(QuantizeLoops_Step(loop))

Step_CompFp32 == loop.call = Fp32Loops_Enter.call /\ StepOf(Fp32Loops_Step(loop))

Step_CompInt8 == loop.call = Int8Loops_Enter.call /\ StepOf(Int8Loops_Step(loop))

NextLoops == Step_Pack \/ Step_QuantizeARow \/ Step_CompFp32 \/ Step_CompInt8

\* a call is one thread of control: it takes its next step whenever it has one
SpecLoops == InitLoops /\ [][NextLoops]_vars /\ WF_vars(NextLoops)

\* C22: every call of the packing, of the row quantizer and of the two GEMM
\* kernels returns, whatever the sizes: for CountM, CountN of 0 and more, for
\* CountN < 4, an odd BlockCountK, a partial last block, and the sub-block loop
\* that steps by 2.
C22_CallsReturn == <>(pc = "returned")

\* the counters of the loops never pass below zero: no unsigned counter wraps
C22_CountersDoNotWrap ==
    pc \in {"running", "returned"} =>
        \A f \in DOMAIN loop : f \notin {"call", "at", "routine", "after", "from"} =>
            (loop[f] >= 0 \/ (f = "nblk" /\ loop[f] >= -4))

C22_Witness ==
    /\ pc = "returned"
    /\ loop.call = "SQ4BitGemmKernel_CompInt8_BlkLenGreaterThan32"
    /\ CountM = 1 /\ CountN = 3 /\ BlockCountKOf(CountK, BlkLen) = 3 /\ BlkLen = 64
    /\ loop.sub_blk_idx = 2 /\ loop.k_blk_idx = 3 /\ loop.n_remaining = 0


-----------------------------------------------------------------------------
(* Sub-blocks of the int8 routines for blocks of more than 32 elements. *)

\* a routine with a sub-block loop runs, for blocks of more than 32 elements
InSubBlkRoutine ==
    /\ pc = "running"
    /\ loop.call = "SQ4BitGemmKernel_CompInt8_BlkLenGreaterThan32"
    /\ loop.at \in {"k_blk_idx < BlockCountK", "sub_blk_idx < SubBlksPerBlk"}

\* the routine is about to start block k_blk_idx, or to return after the last
AtBlkStart == InSubBlkRoutine /\ loop.at = "k_blk_idx < BlockCountK"

\* the sub-block loop of block k_blk_idx has made its last iteration
AtBlkEnd ==
    /\ InSubBlkRoutine /\ loop.at = "sub_blk_idx < SubBlksPerBlk"
    /\ ~(loop.sub_blk_idx < BlkLen \div 32)

\* the iterations of the sub-block loop load the codes of A from the first of
\* the block on, one after the other, and the bytes of B from QuantBDataPtr on:
\* they cover the block exactly once when they end at the end of the block
BlkCoveredOnce ==
    /\ AtBlkStart => loop.QuantBDataPtr = loop.k_blk_idx * MlasQNBitBlkDataSizeInBytes(BlkLen)
    /\ AtBlkEnd =>
        /\ loop.QuantADataPtr = Q8BlkData(loop.QuantAPtr) + BlkLen
        /\ loop.QuantBDataPtr = (loop.k_blk_idx + 1) * MlasQNBitBlkDataSizeInBytes(BlkLen)

\* C23: for every BlkLen > 32 that is a multiple of 16, the 2x2 and the 1x1
\* routine consume exactly BlkLen codes of A and BlkLen / 2 bytes of B per
\* block, and the B data pointer ends each block at the start of the next one.
C23_SubBlocksCoverBlock == BlkLen > 32 => BlkCoveredOnce

\* what holds: the 1x1 routine covers the blocks whose length is a multiple of
\* 64, the 2x2 routine those whose length is a multiple of 32
C23_SubBlocksCoverBlockOf64 ==
    (InSubBlkRoutine /\ BlkLen % SubBlkCodes(loop.routine) = 0) => BlkCoveredOnce

C23_Witness ==
    /\ AtBlkEnd /\ BlkLen = 128 /\ loop.k_blk_idx = 1
    /\ loop.routine = "SQ4BitGemm_CompInt8_Compute1x1_BlkLenGreaterThan32"
    /\ loop.QuantBDataPtr = 128


-----------------------------------------------------------------------------
(* Layout of the workspace. *)

WorkspaceSize == SQ4BitGemmPerGemmWorkspaceSize(CountM, CountN, CountK, BlkLen, ComputeType)

\* the starts of the blocks of the rows of the workspace
WorkspaceBlks ==
    { QuantARowOfCaller(m) + b * Q8BlkSize(BlkLen) :
        <<m, b>> \in (0..(CountM - 1)) \X (0..(BlockCountKOf(CountK, BlkLen) - 1)) }

Quantizing == pc = "running" /\ loop.call = "QuantizeARow_CompInt8"
Quantized == pc = "returned" /\ loop.call = "QuantizeARow_CompInt8"

Int8Running ==
    /\ pc \in {"running", "returned"}
    /\ loop.call \in {"SQ4BitGemmKernel_CompInt8_BlkLen16", "SQ4BitGemmKernel_CompInt8_BlkLen32",
                      "SQ4BitGemmKernel_CompInt8_BlkLenGreaterThan32"}

\* C24: the quantizer of row m stores to the bytes [m * S, (m + 1) * S) of the
\* workspace only, S the ceil(CountK / BlkLen) blocks of a scale and BlkLen
\* codes, and stores S bytes, one block after the other; the int8 kernel loads
\* a scale at the start of a block of the workspace only and codes from the
\* BlkLen codes of a block only; neither leaves the PerGemmWorkspaceSize bytes,
\* for BlkLen 16, 32, 64 and 128.
C24_OneLayout ==
    BlkLen \in {16, 32, 64, 128} =>
        /\ Quantizing \/ Quantized =>
            /\ \A st \in loop.stores :
                /\ loop.QuantA <= st[1]
                /\ st[1] + st[2] <= loop.QuantA + CeilDiv(CountK, BlkLen) * (4 + BlkLen)
                /\ 0 <= st[1] /\ st[1] + st[2] <= WorkspaceSize
                /\ st[1] = loop.QuantA + loop.stored - st[2]
            /\ loop.QuantA \in {m * CeilDiv(CountK, BlkLen) * (4 + BlkLen) : m \in 0..(CountM - 1)}
        /\ Quantized =>
            /\ loop.stored = CeilDiv(CountK, BlkLen) * (4 + BlkLen)
            /\ loop.QuantABlkPtr = loop.QuantA + loop.stored
        /\ Int8Running =>
            \A ld \in loop.loads :
                /\ 0 <= ld[2] /\ ld[2] + ld[3] <= WorkspaceSize
                /\ ld[1] = "scale" => ld[2] \in WorkspaceBlks
                /\ ld[1] = "codes" =>
                       \E blk \in WorkspaceBlks :
                           Q8BlkData(blk) <= ld[2] /\ ld[2] + ld[3] <= blk + Q8BlkSize(BlkLen)

\* the second row of three is quantized; the kernel loads the last codes of
\* the last row of three
C24_RowIsQuantized ==
    /\ Quantized /\ CountM = 3 /\ BlkLen = 64 /\ CountK = 123
    /\ loop.QuantA = 136 /\ loop.QuantABlkPtr = 272

C24_Witness ==
    \/ C24_RowIsQuantized
    \/ /\ Int8Running /\ CountM = 3 /\ BlkLen = 128 /\ CountK = 256
       /\ <<"codes", 3 * 264 - 64, 64>> \in loop.loads


-----------------------------------------------------------------------------
(* Packing for one mode, read in the other. *)

OtherComputeType == IF ComputeType = "CompFp32" THEN "CompInt8" ELSE "CompFp32"

\* the first byte of every sub-block of w codes of the packed unit tid holds the
\* first code of the sub-block and the code w / 2 after it
PackedInSubBlksOf(w, tid) ==
    \A s \in 0..(BlkLen \div w - 1) :
        LET n == tid \div BlockCountK
            k == (tid % BlockCountK) * BlkLen + s * w
            byte == PackedQuantBDataBegin[PackDataOffset(tid, BlockCountK, BlkLen) + s * (w \div 2)]
        IN  /\ LowNibble(byte) = SourceCode(QuantBDataBegin, BlockCountK, BlkLen, n, k)
            /\ HighNibble(byte) = SourceCode(QuantBDataBegin, BlockCountK, BlkLen, n, k + w \div 2)

\* the bytes of B the kernel of mode CType takes the packed bytes for
ReadAs(CType) ==
    [o \in 0..(PackedSize - 1) |-> Unpack(PackedQuantBDataBegin, o, CType, BlkLen)]

\* C25: the packing folds sub-blocks of 16 codes in float mode whatever BlkLen,
\* and in int8 mode of 16 codes when BlkLen is 16 and of 32 otherwise, which
\* the packed bytes show where BlkLen is a multiple of that width; with
\* BlkLen 16 the packed bytes are those of the packing for the other mode;
\* with BlkLen of 32 and more the kernel of the other mode takes the packed
\* bytes of every block for other codes than those of the source.
C25_SubBlkWidthByMode ==
    /\ SubBlkLen = (IF ComputeType = "CompFp32" \/ BlkLen = 16 THEN 16 ELSE 32)
    /\ WholeSubBlks =>
           \A tid \in PackDone :
               PackedInSubBlksOf(IF ComputeType = "CompFp32" \/ BlkLen = 16 THEN 16 ELSE 32, tid)
    /\ (pc = "packed" /\ BlkLen = 16) =>
           \A o \in 0..(PackedSize - 1) :
               PackedQuantBDataBegin[o]
                   = PackedB(QuantBDataBegin, CountN, CountK, OtherComputeType, BlkLen)[o]
    /\ (pc = "packed" /\ BlkLen >= 32) =>
           \A tid \in PackDone : \E o \in OwnBlockBytes(tid) :
               ReadAs(OtherComputeType)[o] # QuantBDataBegin[o]

C25_Witness ==
    /\ pc = "packed" /\ ComputeType = "CompFp32" /\ BlkLen = 32
    /\ CountN = 2 /\ BlockCountK = 2
    /\ ReadAs("CompFp32")[4] = QuantBDataBegin[4]
    /\ ReadAs("CompInt8")[4] # QuantBDataBegin[4]


-----------------------------------------------------------------------------
(* Q4BitBlkDequantBForSgemm_CompFp32: B dequantized for a float GEMM. *)

\* floats of the destination: panels of 16 columns, 16 floats for every k
DequantDstSize(N, K) == MlasDivRoundup(N, 16) * 16 * K

\* memory after the destination that a store of 16 x 16 floats can reach
FpGuardLen == 16 * 16

FpDataBefore(N, K) == [o \in 0..(DequantDstSize(N, K) + FpGuardLen - 1) |-> 1000 + o]

\* variant: the 16 x 16 floats stored column after column
DstIndexOf_ColumnMajor(row, col) == col * 16 + row

\* where Q4BitBlkDequantB_16xNCols stores the float of row j * 4 + lane of
\* column col, from Dst on: DstColPtr[(j * 4 + lane) * 16 + i]
DstIndexOf(row, col) == row * 16 + col

\* Q4BitBlkDequantB_16xNCols: the float of row (0..15) of the column whose 8
\* bytes are at QuantBDataPtr: rows 0..7 from the low nibbles, rows 8..15 from
\* the high nibbles, less the offset, times the scale
Q4BitBlkDequantB_16xNCols(QuantBDataPtr, ColScale, ColOffset, row) ==
    LET bv_packed == PackedQuantBDataBegin[QuantBDataPtr + (row % 8)]
        bv_u8 == IF row < 8 THEN LowNibble(bv_packed) ELSE HighNibble(bv_packed)
    IN  Fl(Fl(fp32_conversion_table[bv_u8] - ColOffset) * ColScale)

\* scale[nn] and offset[nn] of the column nn of the panel at column n0, block k_blk_idx
DequantScale(n0, nn, k_blk_idx) ==
    QuantBScale[n0 * BlockCountKOf(CountK, BlkLen) + nn * BlockCountKOf(CountK, BlkLen)
                + k_blk_idx]

DequantOffset(n0, nn, k_blk_idx) ==
    IF HasZeroPoint
    THEN Fl(fp32_conversion_offset
            + ZeroPoint_CompFp32(n0 * StrideQuantBZeroPoint + nn * StrideQuantBZeroPoint,
                                 k_blk_idx))
    ELSE Fl(fp32_conversion_offset + 8)

\* the float that the store of the 16 x 16 floats of the rows k + kk ..
\* k + kk + 15 of the panel at column n0, from Dst on, leaves at offset o: its
\* NColsOfPanel columns dequantized (all 16, four at a time, or the remaining
\* ones, one at a time, over zeros)
DequantStore16x16(o, Dst, n0, NColsOfPanel, k, kk) ==
    LET nn == CHOOSE c \in 0..15 : \E r \in 0..15 : DstIndexOf(r, c) = o - Dst
        row == CHOOSE r \in 0..15 : DstIndexOf(r, nn) = o - Dst
        QuantBDataPtr == n0 * StrideQuantBData + nn * StrideQuantBData
                         + ((k + kk) * BlkBitWidth) \div 8
    IN  IF nn < NColsOfPanel
        THEN Q4BitBlkDequantB_16xNCols(QuantBDataPtr,
                                       DequantScale(n0, nn, k \div BlkLen),
                                       DequantOffset(n0, nn, k \div BlkLen), row)
        ELSE 0

RECURSIVE Q4BitBlkDequantBForSgemm_From(_, _, _, _)
\* the loops of Q4BitBlkDequantBForSgemm_CompFp32_Impl from the panel with
\* n_cols_remaining columns left, its block at k and its rows k + kk on; st has
\* the stores of 16 x 16 floats made so far, in order, and Dst
Q4BitBlkDequantBForSgemm_From(st, n_cols_remaining, k, kk) ==
    IF n_cols_remaining = 0 THEN st
    ELSE IF ~(k < CountK)
    THEN IF n_cols_remaining > 15
         THEN Q4BitBlkDequantBForSgemm_From(st, n_cols_remaining - 16, 0, 0)
         ELSE st
    ELSE LET kklen == Min(CountK - k, BlkLen)
         IN  IF ~(kk < kklen)
             THEN Q4BitBlkDequantBForSgemm_From(st, n_cols_remaining, k + BlkLen, 0)
             ELSE LET next ==
                          [stores |-> Append(st.stores,
                                             [Dst |-> st.Dst,
                                              n0 |-> CountN - n_cols_remaining,
                                              NColsOfPanel |-> Min(n_cols_remaining, 16),
                                              k |-> k, kk |-> kk]),
                           Dst |-> st.Dst + 16 * Min(kklen - kk, 16)]
                  IN  AndThen(Len(next.stores),
                              Q4BitBlkDequantBForSgemm_From(next, n_cols_remaining, k, kk + 16))

\* the destination and the memory after it when the routine returns, every
\* offset holding what the last store over it left, and the offsets stored to
Q4BitBlkDequantBForSgemm_CompFp32 ==
    LET stores == Q4BitBlkDequantBForSgemm_From([stores |-> <<>>, Dst |-> 0],
                                                CountN, 0, 0).stores
        Over(o) == { i \in 1..Len(stores) :
                        o >= stores[i].Dst /\ o < stores[i].Dst + 16 * 16 }
        Last(o) == stores[CHOOSE i \in Over(o) : \A j \in Over(o) : j <= i]
    IN  [FpData |-> [o \in DOMAIN FpData |->
                        IF Over(o) = {} THEN FpData[o]
                        ELSE DequantStore16x16(o, Last(o).Dst, Last(o).n0,
                                               Last(o).NColsOfPanel, Last(o).k, Last(o).kk)],
         stored |-> UNION { stores[i].Dst .. (stores[i].Dst + 16 * 16 - 1) :
                               i \in 1..Len(stores) }]

\* columns and rows of the dequantized B: one partial panel, one whole panel,
\* whole panels and a partial one; rows that fill the chunks of 16 and rows
\* that leave the last chunk partial
DequantNs == {1, 5, 16, 17, 2 * 16 + 3}
DequantKs(BLen) == {BLen - 11, BLen, BLen + 1, 2 * BLen, 2 * BLen + 16 - 3}

InitDequant ==
    /\ pc = "packed"
    /\ BlkLen \in {16, 32}
    /\ CountN \in DequantNs
    /\ CountK \in DequantKs(BlkLen)
    /\ CountM = 0
    /\ \E p \in 0..MaxPattern : InitPackedB("CompFp32", p)
    /\ FpData = FpDataBefore(CountN, CountK)
    /\ Bias = NULL /\ A = NULL /\ QuantA = NULL /\ C = NULL /\ ldc = 0
    /\ zpUsed = NULL /\ biasReads = {} /\ calls = <<>> /\ ret = NULL /\ prev = <<>>
    /\ loop = NULL /\ value_indexes = NULL

DequantUnchanged ==
    UNCHANGED <<ComputeType, BlkLen, CountM, CountN, CountK, QuantBDataBegin,
                PackedQuantBDataBegin, pending, fetched, QuantBScale, QuantBZeroPoint,
                Bias, A, QuantA, C, ldc, zpUsed, biasReads, calls, ret, prev, loop, value_indexes>>

\* the call returns; the stores past the destination have gone to the memory
\* after it
Call_Q4BitBlkDequantBForSgemm_CompFp32 ==
    /\ pc = "packed"
    /\ FpData' = Q4BitBlkDequantBForSgemm_CompFp32.FpData
    /\ touched' = Q4BitBlkDequantBForSgemm_CompFp32.stored
    /\ pc' = "dequantized"
    /\ DequantUnchanged

\* a store past the destination is undefined behaviour: the call may as well
\* stop at the first one
Fault_Q4BitBlkDequantBForSgemm_CompFp32 ==
    /\ pc = "packed"
    /\ ~(\A o \in Q4BitBlkDequantBForSgemm_CompFp32.stored : o < DequantDstSize(CountN, CountK))
    /\ touched' = Q4BitBlkDequantBForSgemm_CompFp32.stored
    /\ pc' = "faulted"
    /\ UNCHANGED FpData
    /\ DequantUnchanged

NextDequant ==
    \/ Call_Q4BitBlkDequantBForSgemm_CompFp32
    \/ Fault_Q4BitBlkDequantBForSgemm_CompFp32

SpecDequant == InitDequant /\ [][NextDequant]_vars

\* zero-point of block b of column n, 8 without zero-points
ZeroPointOfBlk(n, b) ==
    IF HasZeroPoint THEN ZeroPoint_CompFp32(n * StrideQuantBZeroPoint, b) ELSE 8

\* C26: the dequantized B is in panels of 16 columns, 16 floats for every k:
\* the float at p * 16 * CountK + k * 16 + c is (code(16p + c, k) - zp) * scale
\* of the block of k for a column 16p + c of B, and 0 for a column past CountN.
C26_PanelsOf16Columns ==
    pc = "dequantized" =>
        \A p \in 0..(MlasDivRoundup(CountN, 16) - 1), k \in 0..(CountK - 1), c \in 0..15 :
            FpData[p * 16 * CountK + k * 16 + c]
                = IF 16 * p + c < CountN
                  THEN (SourceCode(QuantBDataBegin, BlockCountKOf(CountK, BlkLen), BlkLen,
                                   16 * p + c, k)
                        - ZeroPointOfBlk(16 * p + c, k \div BlkLen))
                       * QuantBScale[(16 * p + c) * StrideQuantBScale + k \div BlkLen]
                  ELSE 0

\* two whole panels and one of three columns, of rows in two blocks and three
\* rows more than a chunk of 16
C26_Witness ==
    /\ pc = "dequantized" /\ CountN = 35 /\ BlkLen = 16 /\ CountK = 32 + 13 /\ HasZeroPoint
    /\ FpData[2 * 16 * CountK + 44 * 16 + 2] # 0
    /\ FpData[2 * 16 * CountK + 44 * 16 + 3] = 0

\* C27: the call stores to the ceil(CountN / 16) * 16 * CountK floats of its
\* destination only, whatever CountN and CountK.
C27_StoresInsideDestination ==
    pc \in {"dequantized", "faulted"} =>
        \A o \in touched : o < DequantDstSize(CountN, CountK)

\* what holds: the stores stay inside when CountK is a multiple of 16
C27_StoresInsideWhenWholeChunks ==
    (pc \in {"dequantized", "faulted"} /\ CountK % 16 = 0) =>
        \A o \in touched : o < DequantDstSize(CountN, CountK)


-----------------------------------------------------------------------------
(* Either kernel called on a B whose last block is partial, then on a B that *)
(* differs from it in the codes past the true length of the columns only.    *)

\* a quantized A as QuantizeARow_CompInt8 leaves it: dense codes for the K
\* elements of a row, zeros past them in the last block
PaddedQuantA(M, K, BLen) ==
    LET BlockCount == BlockCountKOf(K, BLen)
        dense == DenseQuantA(M, BlockCount, BLen, 1)
    IN  [o \in DOMAIN dense |->
            LET b == (o \div Q8BlkSize(BLen)) % BlockCount
                i == o % Q8BlkSize(BLen)
            IN  IF i >= 4 /\ b * BLen + (i - 4) >= K THEN 0 ELSE dense[o]]

\* the source src with shift added to every code at a position k >= K
OtherPadding(src, N, K, BLen, shift) ==
    LET colBytes == BlockCountKOf(K, BLen) * MlasQNBitBlkDataSizeInBytes(BLen)
        Code(q, k) == IF k >= K THEN (q + shift) % 16 ELSE q
    IN  [o \in DOMAIN src |->
            IF o >= N * colBytes THEN src[o]
            ELSE LET j == o % colBytes
                 IN  MakeByte(Code(LowNibble(src[o]), 2 * j),
                              Code(HighNibble(src[o]), 2 * j + 1))]

PaddingShifts == {1, 9}

InitPadding ==
    \/ /\ InitFp32Over({1, MaxN})
       /\ CountK % BlkLen # 0
    \/ /\ pc = "packed"
       /\ BlkLen \in {16, 32, 64}
       /\ CountM \in 1..2
       /\ CountN \in 1..MaxM
       /\ CountK \in {BlkLen - 6, BlkLen + 1}
       /\ InitPackedB("CompInt8", 0)
       /\ Bias = NULL /\ A = NULL /\ QuantA = NULL /\ C = NULL /\ ldc = 0
       /\ zpUsed = NULL /\ biasReads = {} /\ calls = <<>> /\ ret = NULL /\ prev = <<>>
       /\ loop = NULL /\ value_indexes = NULL /\ FpData = NULL

SetupPaddedCall_CompInt8 ==
    /\ ComputeType = "CompInt8"
    /\ \E bias \in {NULL, BiasBuffer(CountN)} :
          SetupCall(NULL, PaddedQuantA(CountM, CountK, BlkLen), bias)

\* the caller packs a B with other codes in the padding, for a second call
\* with the same A and Bias
ChangePadding ==
    /\ pc = "called"
    /\ prev = <<>>
    /\ prev' = <<[Bias |-> Bias, C |-> C, B |-> PackedQuantBDataBegin]>>
    /\ \E shift \in PaddingShifts :
          QuantBDataBegin' = OtherPadding(QuantBDataBegin, CountN, CountK, BlkLen, shift)
    /\ PackedQuantBDataBegin' = PackedB(QuantBDataBegin', CountN, CountK, ComputeType, BlkLen)
    /\ pc' = "ready"
    /\ UNCHANGED <<ComputeType, BlkLen, CountN, CountK, pending, touched, fetched,
                   QuantBScale, QuantBZeroPoint>>
    /\ UNCHANGED <<CountM, Bias, A, QuantA, C, ldc, zpUsed, biasReads, calls, ret, loop,
                   FpData, value_indexes>>

NextPadding ==
    \/ SetupDenseCall_CompFp32
    \/ SetupPaddedCall_CompInt8
    \/ ChangePadding
    \/ Call_CompFp32
    \/ Call_CompInt8

SpecPadding == InitPadding /\ [][NextPadding]_vars

\* the second call is on a B whose padding was changed
SpecPaddingRuns == "B" \in DOMAIN prev[1]

\* C28: the result of a call does not depend on the codes of B at the
\* positions k >= K of the last block of a column: with the same A, scales,
\* zero-points and Bias, a B that differs in those codes only gives the same C.
C28_PaddingCodesDoNotMatter == (SecondCall /\ SpecPaddingRuns) => C = FirstC

\* both modes called a second time on a packed B that is another one
C28_Witness ==
    /\ SecondCall /\ SpecPaddingRuns
    /\ prev[1].B # PackedQuantBDataBegin
    /\ C = FirstC
    /\ ComputeType = "CompInt8" /\ BlkLen = 64 /\ CountM = 2 /\ CountN = 3 /\ CountK = 65

C28_WitnessFp32 ==
    /\ SecondCall /\ SpecPaddingRuns
    /\ prev[1].B # PackedQuantBDataBegin
    /\ C = FirstC
    /\ ComputeType = "CompFp32" /\ BlkLen = 32 /\ CountN = MaxN /\ CountK = 33


-----------------------------------------------------------------------------
(* Ranges of the integers of the int8 mode: the row quantizer on the rows of *)
(* SpecQuant, and the int8 kernel on codes of the largest magnitudes.        *)

\* source codes of B that are all q
ConstantSource(N, BlockCount, BLen, q) ==
    [o \in 0..(N * BlockCount * MlasQNBitBlkDataSizeInBytes(BLen) + GuardLen - 1) |->
        IF o < N * BlockCount * MlasQNBitBlkDataSizeInBytes(BLen) THEN MakeByte(q, q) ELSE 0]

\* zero-points that are all zp
ConstantZeroPoints(N, BlockCount, zp) ==
    [o \in 0..(N * MlasQNBitZeroPointsForBlksSizeInBytes(BlockCount) - 1) |-> MakeByte(zp, zp)]

\* a quantized A whose codes are all 127, of the sign given or of both in turn
ExtremeQuantA(M, BlockCount, BLen, sign) ==
    [o \in 0..(M * BlockCount * Q8BlkSize(BLen) - 1) |->
        LET blk == o \div Q8BlkSize(BLen)
            i == o % Q8BlkSize(BLen)
        IN  IF i = 0 THEN ScaleAPattern(blk \div BlockCount, blk % BlockCount)
            ELSE IF i < 4 THEN 0
            ELSE IF sign = 0 THEN (IF i % 2 = 0 THEN 127 ELSE -127)
            ELSE sign * 127]

InitExtreme ==
    /\ pc = "packed"
    /\ ComputeType = "CompInt8"
    /\ BlkLen \in Int8BlkLens
    /\ CountM \in 1..2
    /\ CountN \in 1..MaxM
    /\ \E b \in 1..MaxBlockCountK : CountK = b * BlkLen
    /\ \E q \in {0, 15} :
          QuantBDataBegin = ConstantSource(CountN, BlockCountKOf(CountK, BlkLen), BlkLen, q)
    /\ PackedQuantBDataBegin = PackedB(QuantBDataBegin, CountN, CountK, ComputeType, BlkLen)
    /\ pending = {}
    /\ touched = [tid \in 0..(CountN * BlockCountKOf(CountK, BlkLen) - 1) |->
                     PackWrites(tid, ComputeType, BlockCountKOf(CountK, BlkLen), BlkLen)]
    /\ fetched = [tid \in 0..(CountN * BlockCountKOf(CountK, BlkLen) - 1) |->
                     PackReads(tid, ComputeType, BlockCountKOf(CountK, BlkLen), BlkLen)]
    /\ QuantBScale = ScaleBuffer(CountN, BlockCountKOf(CountK, BlkLen))
    /\ QuantBZeroPoint \in
          {NULL} \cup { ConstantZeroPoints(CountN, BlockCountKOf(CountK, BlkLen), zp) :
                            zp \in {0, 15} }
    /\ Bias = NULL /\ A = NULL /\ QuantA = NULL /\ C = NULL /\ ldc = 0
    /\ zpUsed = NULL /\ biasReads = {} /\ calls = <<>> /\ ret = NULL /\ prev = <<>>
    /\ loop = NULL /\ value_indexes = NULL /\ FpData = NULL

InitRanges == InitQuant \/ InitExtreme

SetupExtremeCall_CompInt8 ==
    /\ ComputeType = "CompInt8"
    /\ \E sign \in {-1, 0, 1} :
          SetupCall(NULL, ExtremeQuantA(CountM, BlockCountKOf(CountK, BlkLen), BlkLen, sign),
                    NULL)

NextRanges ==
    \/ Call_QuantizeARow_CompInt8
    \/ SetupExtremeCall_CompInt8
    \/ Call_CompInt8

SpecRanges == InitRanges /\ [][NextRanges]_vars

\* the sub-blocks a routine takes a dot product of: 16 codes for BlkLen 16,
\* 32 codes otherwise
DotSubBlks == IF BlkLen = 16 THEN {0} ELSE 0..(BlkLen \div 32 - 1)

\* lane l of the int32 dot product of sub-block sub of block b, row m, column n
DotLane(m, n, b, sub, l) ==
    LET APtr == Q8BlkData(QuantABlkPtr(m, b)) + 32 * sub
        BPtr == n * StrideQuantBData + b * MlasQNBitBlkDataSizeInBytes(BlkLen) + 16 * sub
    IN  IF BlkLen = 16 THEN Dot16(APtr, BPtr, zpUsed[<<m, n, b>>], l)
        ELSE Dot32(APtr, BPtr, zpUsed[<<m, n, b>>], l)

\* the codes of B of that sub-block, zero-point subtracted, as int8
WidenedCodes(m, n, b, sub) ==
    LET BPtr == n * StrideQuantBData + b * MlasQNBitBlkDataSizeInBytes(BlkLen) + 16 * sub
        bzp == zpUsed[<<m, n, b>>]
    IN  IF BlkLen = 16 THEN { Int8(BvCombine8(BPtr, e) - bzp) : e \in 0..15 }
        ELSE { Int8(BvLow16(BPtr, e) - bzp) : e \in 0..15 }
                 \cup { Int8(BvHigh16(BPtr, e) - bzp) : e \in 0..15 }

\* C29: a code of B less a zero-point is within [-15, 15] as an int8, for all
\* codes and zero-points of 0..15, and so are the codes the kernel widens; the
\* codes the row quantizer stores are within [-127, 127]; a lane of the dot
\* product of a sub-block, 8 products at most, is within 8 * 127 * 15 and so
\* within the int32.
C29_NoIntegerOverflow ==
    /\ \A q \in 0..15, zp \in 0..15 : Int8(q - zp) = q - zp /\ q - zp \in -15..15
    /\ pc = "quantized" =>
           \A b \in QuantBlocks : \A i \in 0..(BlkLen - 1) : StoredCode(b, i) \in -127..127
    /\ Int8Called =>
           \A m \in 0..(CountM - 1), n \in 0..(CountN - 1), b \in QuantBlocks :
               \A sub \in DotSubBlks :
                   /\ WidenedCodes(m, n, b, sub) \subseteq -15..15
                   /\ \A l \in 0..3 : Abs(DotLane(m, n, b, sub, l)) <= 8 * 127 * 15

\* the largest lane: 8 products of 127 and 15
C29_Witness ==
    /\ Int8Called /\ BlkLen = 64 /\ CountM = 2 /\ CountN = 3 /\ CountK = 128
    /\ DotLane(1, 2, 1, 1, 3) = 8 * 127 * 15
    /\ 15 \in WidenedCodes(1, 2, 1, 1)

\* the quantizer has stored a code of each of the largest magnitudes
C29_WitnessQuantized ==
    /\ pc = "quantized"
    /\ \E b \in QuantBlocks : \E i \in 0..(BlkLen - 1) : StoredCode(b, i) = 127
    /\ \E b \in QuantBlocks : \E i \in 0..(BlkLen - 1) : StoredCode(b, i) = -127


-----------------------------------------------------------------------------
(* VulkanKernel::ValueIndexes: the map from the name of a value to its index *)

\* the most calls of Add in a behaviour
MaxAdds == 5

\* the values Add is called with: three that exist, and the missing one
NodeArgs ==
    { [Name |-> n, Exists |-> TRUE] : n \in {"X", "W", "Y"} }
        \cup { [Name |-> "", Exists |-> FALSE] }

\* idx: the size of the map before the insertion, or -1 for a missing value
IndexToAdd(indexes, def) ==
    IF def.Exists THEN Cardinality(DOMAIN indexes) ELSE -1

\* (*this)[def.Name()] = idx: inserts the name, or overwrites its index
ValueIndexes_Add(indexes, def) ==
    [n \in DOMAIN indexes \cup {def.Name} |->
        IF n = def.Name THEN IndexToAdd(indexes, def) ELSE indexes[n]]

InitVulkan ==
    /\ pc = "indexes"
    /\ value_indexes = [n \in {} |-> 0]
    /\ calls = <<>>
    /\ ret = NULL
    /\ ComputeType = NULL /\ BlkLen = 0 /\ CountM = 0 /\ CountN = 0 /\ CountK = 0
    /\ QuantBDataBegin = NULL /\ PackedQuantBDataBegin = NULL
    /\ pending = {} /\ touched = {} /\ fetched = {}
    /\ QuantBScale = NULL /\ QuantBZeroPoint = NULL /\ Bias = NULL
    /\ A = NULL /\ QuantA = NULL /\ C = NULL /\ ldc = 0 /\ zpUsed = NULL
    /\ biasReads = {} /\ prev = <<>> /\ loop = NULL /\ FpData = NULL

Call_ValueIndexes_Add ==
    /\ pc = "indexes"
    /\ Len(calls) < MaxAdds
    /\ \E def \in NodeArgs :
          /\ value_indexes' = ValueIndexes_Add(value_indexes, def)
          /\ ret' = IndexToAdd(value_indexes, def)
          /\ calls' = Append(calls, def)
    /\ UNCHANGED <<pc, ComputeType, BlkLen, CountM, CountN, CountK, QuantBDataBegin,
                   PackedQuantBDataBegin, pending, touched, fetched, QuantBScale,
                   QuantBZeroPoint, Bias, A, QuantA, C, ldc, zpUsed, biasReads, prev,
                   loop, FpData>>

NextVulkan == Call_ValueIndexes_Add

SpecVulkan == InitVulkan /\ [][NextVulkan]_vars

\* the values added so far, by name
AddedValue(n) == CHOOSE def \in NodeArgs : def.Name = n

\* C30: after any calls of Add, a value that exists has an index of 0 or more,
\* a missing one has -1, and two names that both exist have different indexes.
C30_IndexesIdentifyValues ==
    pc = "indexes" =>
        /\ \A n \in DOMAIN value_indexes :
              IF AddedValue(n).Exists THEN value_indexes[n] >= 0
              ELSE value_indexes[n] = -1
        /\ \A n1, n2 \in DOMAIN value_indexes :
              (n1 # n2 /\ AddedValue(n1).Exists /\ AddedValue(n2).Exists)
                  => value_indexes[n1] # value_indexes[n2]

\* the part that holds: the sign of an index tells whether the value exists,
\* and the indexes are distinct as long as no name has been added twice
C30_IndexesDistinctWithoutRepeats ==
    pc = "indexes" =>
        /\ \A n \in DOMAIN value_indexes :
              IF AddedValue(n).Exists THEN value_indexes[n] >= 0
              ELSE value_indexes[n] = -1
        /\ (\A i, j \in 1..Len(calls) : calls[i] = calls[j] => i = j) =>
              \A n1, n2 \in DOMAIN value_indexes :
                  (n1 # n2 /\ AddedValue(n1).Exists /\ AddedValue(n2).Exists)
                      => value_indexes[n1] # value_indexes[n2]

\* a name added twice, then another: X, W, X, Y
C30_Witness ==
    /\ pc = "indexes"
    /\ Len(calls) = 4
    /\ calls[1].Name = "X" /\ calls[2].Name = "W" /\ calls[3].Name = "X" /\ calls[4].Name = "Y"
    /\ value_indexes["X"] = 2 /\ value_indexes["Y"] = 2

====
